---- MODULE Spec2Model ----
(***************************************************************************)
(* Verification model of the BestAllocation back end:                      *)
(*   backend/backtester.py    walk-forward engine and its overlays         *)
(*   backend/optimization.py  HRP bisection and optimize_with_fallback     *)
(*                                                                         *)
(* Floating point numbers are modelled as exact rationals [n, d] in lowest *)
(* terms (d > 0).  Dates are modelled by their position 0 .. L-1 in the    *)
(* aligned price index; the returns row "dated i" is the change from       *)
(* close[i-1] to close[i], so the returns frame holds the rows 1 .. L-1.   *)
(***************************************************************************)
EXTENDS Integers, Sequences, FiniteSets, TLC

VARIABLES
    \* ---- walk_forward_backtest --------------------------------------
    args,                     \* the call's arguments
    pc,                       \* position in walk_forward_backtest
    current_idx,
    d_idx,                    \* holding-period loop variable
    equity_curve,
    allocation_history,
    rebalance_dates,
    overfitting_metrics,
    current_shares,
    cash_balance,
    total_transaction_costs,
    total_turnover,
    last_weights,
    latest_dendrogram_data,
    cycle,                    \* locals of the current loop iteration
    training_window_returns,  \* the rows of line 442, by their dates
    \* ---- calls of the pure functions --------------------------------
    fn_pc,
    fn_args,
    fn_ret,
    \* ---- run_comparison_job ------------------------------------------
    request,                  \* the CompareRequest
    job,                      \* job_manager.jobs[job_id]
    job_pc,                   \* position of the orchestrator in run_comparison_job
    futures,                  \* the three _run_strategy tasks of the pool
    yielded,                  \* futures that as_completed has handed to the loop
    method_results,
    completed_methods,
    benchmark                 \* benchmark_curve, benchmark_name, bench_turnover

engineVars == <<args, pc, current_idx, d_idx, equity_curve, allocation_history,
                rebalance_dates, overfitting_metrics, current_shares,
                cash_balance, total_transaction_costs, total_turnover,
                last_weights, latest_dendrogram_data, cycle, training_window_returns>>
fnVars == <<fn_pc, fn_args, fn_ret>>
jobVars == <<request, job, job_pc, futures, yielded, method_results,
             completed_methods, benchmark>>
vars == <<engineVars, fnVars, jobVars>>

None == "None"

(***************************************************************************)
(* Exact rational arithmetic (the model of Python floats).                 *)
(***************************************************************************)
Abs(x) == IF x < 0 THEN -x ELSE x

RECURSIVE GCD(_, _)
GCD(a, b) == IF b = 0 THEN a ELSE GCD(b, a % b)

Rat(num, den) ==
    LET s == IF den < 0 THEN -1 ELSE 1
        g == GCD(Abs(num), Abs(den))
    IN  [n |-> (s * num) \div g, d |-> (s * den) \div g]

Zero == [n |-> 0, d |-> 1]
One  == [n |-> 1, d |-> 1]
RInt(k) == [n |-> k, d |-> 1]

\* the operations cancel common factors first, to keep the integers small
LCM(a, b) == (a \div GCD(a, b)) * b
RAdd(x, y) ==
    LET l == LCM(x.d, y.d)
    IN  Rat(x.n * (l \div x.d) + y.n * (l \div y.d), l)
RNeg(x)    == [n |-> -x.n, d |-> x.d]
RSub(x, y) == RAdd(x, RNeg(y))
RMul(x, y) ==
    LET g1 == GCD(Abs(x.n), y.d)
        g2 == GCD(Abs(y.n), x.d)
    IN  Rat((x.n \div g1) * (y.n \div g2), (x.d \div g2) * (y.d \div g1))
RDiv(x, y) == RMul(x, Rat(y.d, y.n))              \* y # 0
RLt(x, y)  ==
    LET l == LCM(x.d, y.d)
    IN  x.n * (l \div x.d) < y.n * (l \div y.d)
RLe(x, y)  == ~RLt(y, x)
RMin(x, y) == IF RLe(x, y) THEN x ELSE y
RMax(x, y) == IF RLe(x, y) THEN y ELSE x
RAbs(x)    == [n |-> Abs(x.n), d |-> x.d]

\* Sum of f[k] over k \in S
RECURSIVE RSumOver(_, _)
RSumOver(f, S) ==
    IF S = {} THEN Zero
    ELSE LET k == CHOOSE x \in S : TRUE
         IN  RAdd(f[k], RSumOver(f, S \ {k}))

(***************************************************************************)
(* Python dicts ticker -> float: functions whose domain is the key set.    *)
(***************************************************************************)
EmptyDict == [t \in {} |-> Zero]
DictGet(w, t) == IF t \in DOMAIN w THEN w[t] ELSE Zero      \* w.get(t, 0.0)
DictSum(w) == RSumOver(w, DOMAIN w)                          \* sum(w.values())

\* seq[a:b] of Python for a sequence of length len: the 1-based positions kept.
PyIndex(i, len) ==
    IF i < 0 THEN (IF len + i < 0 THEN 0 ELSE len + i)
    ELSE (IF i > len THEN len ELSE i)
PySlice(len, a, b) == { k \in 1..len : PyIndex(a, len) < k /\ k <= PyIndex(b, len) }

(***************************************************************************)
(* config.py                                                               *)
(***************************************************************************)
TURNOVER_SMOOTHING_FACTOR == Rat(1, 4)
VOLATILITY_LOOKBACK == 63
VolEpsilon == Rat(1, 1000000)       \* 1e-6
CashEpsilon == Rat(1, 1000)         \* 0.001

(***************************************************************************)
(* backtester.smooth_weights                                               *)
(***************************************************************************)
smooth_weights_renormalized(new_weights, old_weights, smoothing_factor) ==
    IF old_weights = EmptyDict \/ RLe(smoothing_factor, Zero)
    THEN new_weights
    ELSE LET raw == [t \in DOMAIN new_weights \cup DOMAIN old_weights |->
                        RAdd(RMul(RSub(One, smoothing_factor), DictGet(new_weights, t)),
                             RMul(smoothing_factor, DictGet(old_weights, t)))]
             total == DictSum(raw)
         IN  IF total = Zero THEN raw
             ELSE [t \in DOMAIN raw |-> RDiv(raw[t], total)]

\* the old weights added on top of the new ones
smooth_weights_added(new_weights, old_weights, smoothing_factor) ==
    IF old_weights = EmptyDict \/ RLe(smoothing_factor, Zero)
    THEN new_weights
    ELSE [t \in DOMAIN new_weights \cup DOMAIN old_weights |->
             RAdd(DictGet(new_weights, t), RMul(smoothing_factor, DictGet(old_weights, t)))]

smooth_weights(new_weights, old_weights, smoothing_factor) ==
    IF old_weights = EmptyDict \/ RLe(smoothing_factor, Zero)
    THEN new_weights
    ELSE [t \in DOMAIN new_weights \cup DOMAIN old_weights |->
             RAdd(RMul(RSub(One, smoothing_factor), DictGet(new_weights, t)),
                  RMul(smoothing_factor, DictGet(old_weights, t)))]

(***************************************************************************)
(* backtester.apply_volatility_scaling                                     *)
(*                                                                         *)
(* realized_vol = np.std(recent_returns @ w) * sqrt(trading_days) is       *)
(* irrational in general; the caller of this operator supplies its value.  *)
(* n_rows is len(returns); the rows used are returns.iloc[-lookback:].     *)
(***************************************************************************)
RecentRows(n_rows, lookback) ==
    IF n_rows >= lookback THEN PySlice(n_rows, -lookback, n_rows)
    ELSE 1..n_rows

scale_uncapped(target_vol, realized_vol) == RDiv(target_vol, realized_vol)

vol_scale(target_vol, realized_vol) ==
    RMin(One, RDiv(target_vol, realized_vol))

apply_volatility_scaling(weights, n_rows, realized_vol, target_vol, lookback) ==
    IF weights = EmptyDict \/ RLt(DictSum(weights), CashEpsilon)
    THEN [weights |-> weights, cash |-> Zero]
    ELSE IF RecentRows(n_rows, lookback) = {}
    THEN [weights |-> weights, cash |-> Zero]
    ELSE IF RLt(realized_vol, VolEpsilon)
    THEN [weights |-> weights, cash |-> Zero]
    ELSE LET scale == vol_scale(target_vol, realized_vol)
             scaled_weights == [k \in DOMAIN weights |-> RMul(weights[k], scale)]
             cash_allocation == RSub(One, DictSum(scaled_weights))
         IN  [weights |-> scaled_weights, cash |-> RMax(Zero, cash_allocation)]

(***************************************************************************)
(* optimization.py: HRP recursive bisection                                *)
(*                                                                         *)
(* A covariance matrix is a function cov[i][j] over the tickers, a         *)
(* similarity order sort_ix is a sequence of distinct tickers.             *)
(***************************************************************************)
Range(s) == { s[i] : i \in 1..Len(s) }

\* ivp = 1 / np.diag(cov_slice)
InverseVariance(cov, items) == [i \in items |-> RDiv(One, cov[i][i])]

\* ivp /= ivp.sum()
Normalized(ivp, items) == [i \in items |-> RDiv(ivp[i], RSumOver(ivp, items))]

\* get_allocations: inverse-variance weights of the assets in items
get_allocations(cov, items) == Normalized(InverseVariance(cov, items), items)

\* np.dot(np.dot(w.T, cov_slice), w)
QuadraticForm(cov, items, w) ==
    RSumOver([p \in items \X items |-> RMul(RMul(w[p[1]], cov[p[1]][p[2]]), w[p[2]])],
             items \X items)

\* get_cluster_var: w @ cov_slice @ w for the inverse-variance w
get_cluster_var(cov, c_items) ==
    QuadraticForm(cov, Range(c_items), get_allocations(cov, Range(c_items)))

\* c_items = [i[j:k] for i in c_items for j, k in ((0, len(i)//2), (len(i)//2, len(i))) if len(i) > 1]
RECURSIVE Bisect(_)
Bisect(c_items) ==
    IF c_items = <<>> THEN <<>>
    ELSE LET i == Head(c_items)
             h == Len(i) \div 2
         IN  (IF Len(i) > 1 THEN <<SubSeq(i, 1, h), SubSeq(i, h + 1, Len(i))>> ELSE <<>>)
             \o Bisect(Tail(c_items))

split_alpha_swapped(c_var0, c_var1) == RDiv(c_var0, RAdd(c_var0, c_var1))

\* alpha = 1 - c_var0 / (c_var0 + c_var1)
split_alpha(c_var0, c_var1) == RSub(One, RDiv(c_var0, RAdd(c_var0, c_var1)))

\* w[c_items0] *= alpha; w[c_items1] *= 1 - alpha
SplitWeights(w, c_items0, c_items1, alpha) ==
    [t \in DOMAIN w |->
        IF t \in Range(c_items0) THEN RMul(w[t], alpha)
        ELSE IF t \in Range(c_items1) THEN RMul(w[t], RSub(One, alpha))
        ELSE w[t]]

\* The body of "for i in range(0, len(c_items), 2)" for the pair at i, given the two
\* cluster variances.  st = [c_items, w, raised].  The division of two Python floats
\* raises ZeroDivisionError on a zero denominator: raised tells that it did.
ApplySplit(st, i, c_var0, c_var1) ==
    IF RAdd(c_var0, c_var1) = Zero THEN [st EXCEPT !.raised = TRUE]
    ELSE [st EXCEPT !.w = SplitWeights(st.w, st.c_items[i], st.c_items[i + 1],
                                        split_alpha(c_var0, c_var1))]

\* for i in range(0, len(c_items), 2): ...
RECURSIVE ApplySplits(_, _, _)
ApplySplits(cov, st, i) ==
    IF st.raised \/ i > Len(st.c_items) THEN st
    ELSE ApplySplits(cov,
                     ApplySplit(st, i, get_cluster_var(cov, st.c_items[i]),
                                get_cluster_var(cov, st.c_items[i + 1])),
                     i + 2)

\* one iteration of "while len(c_items) > 0"
RecBipartIteration(cov, w, c_items) ==
    ApplySplits(cov, [c_items |-> Bisect(c_items), w |-> w, raised |-> FALSE], 1)

RecBipartStart(sort_ix) ==
    [c_items |-> <<sort_ix>>, w |-> [t \in Range(sort_ix) |-> One], raised |-> FALSE]

RECURSIVE RecBipartRun(_, _)
RecBipartRun(cov, st) ==
    IF st.raised \/ Len(st.c_items) = 0 THEN st
    ELSE RecBipartRun(cov, RecBipartIteration(cov, st.w, st.c_items))

\* get_rec_bipart(cov, sort_ix): [raised, w, c_items]; w is the result unless raised
get_rec_bipart(cov, sort_ix) == RecBipartRun(cov, RecBipartStart(sort_ix))

\* get_quasi_diag(link): link is the sequence of merges [l, r, n] (left child,
\* right child, number of leaves); leaves are 0 .. N-1, merge k creates N+k-1.
\* the expansion with the right child put before the left one
RECURSIVE ExpandClustersRightFirst(_, _, _)
ExpandClustersRightFirst(sort_ix, link, num) ==
    IF sort_ix = <<>> THEN <<>>
    ELSE (IF Head(sort_ix) >= num
          THEN <<link[Head(sort_ix) - num + 1].r, link[Head(sort_ix) - num + 1].l>>
          ELSE <<Head(sort_ix)>>)
         \o ExpandClustersRightFirst(Tail(sort_ix), link, num)

RECURSIVE ExpandClusters(_, _, _)
ExpandClusters(sort_ix, link, num) ==
    IF sort_ix = <<>> THEN <<>>
    ELSE LET e == Head(sort_ix)
         IN  (IF e >= num THEN <<link[e - num + 1].l, link[e - num + 1].r>> ELSE <<e>>)
             \o ExpandClusters(Tail(sort_ix), link, num)

RECURSIVE QuasiDiagLoop(_, _, _)
QuasiDiagLoop(sort_ix, link, num) ==
    IF \E i \in 1..Len(sort_ix) : sort_ix[i] >= num
    THEN QuasiDiagLoop(ExpandClusters(sort_ix, link, num), link, num)
    ELSE sort_ix

get_quasi_diag(link) ==
    LET last == link[Len(link)]
    IN  QuasiDiagLoop(<<last.l, last.r>>, link, last.n)

(***************************************************************************)
(* optimization.py: the optimizers behind optimize_with_fallback           *)
(*                                                                         *)
(* The numerical libraries are not part of the repository.  What they      *)
(* return for a given returns matrix is an input "lib" of the model:       *)
(*   lib.hrp    [status: "raise" (cov/corr/linkage raised) or "ok",        *)
(*               cov, link, dendro (calculate_dendrogram's result)]        *)
(*   lib.mu     [status: "raise" or "ok", max: the largest annualised      *)
(*               expected return]                                          *)
(*   lib.S      "raise" or "ok" (the shrunk covariance)                    *)
(*   lib.solve  [status: "SolverError" (ValueError / OptimizationError of  *)
(*               the solve), "Exception" (any other exception) or "ok",    *)
(*               weights: the solver's weight vector, which sums to 1]     *)
(***************************************************************************)
EqualWeights(columns) ==
    [c \in Range(columns) |-> Rat(1, Len(columns))]
ZeroWeights(columns) == [c \in Range(columns) |-> Zero]

OptimizationResult(weights, fallback_used, fallback_reason, dendrogram_data, solved) ==
    [weights |-> weights, fallback_used |-> fallback_used,
     fallback_reason |-> fallback_reason, dendrogram_data |-> dendrogram_data,
     solve_attempted |-> solved]

\* round(x, digits) / np.round(x, digits): to the nearest multiple of 10^-digits,
\* ties to even.  The decimals are produced by long division, one digit at a time:
\* st = [q, r] with |x| * 10^k = q + r / x.d.
RECURSIVE Pow10(_)
Pow10(k) == IF k = 0 THEN 1 ELSE 10 * Pow10(k - 1)

RECURSIVE LongDivision(_, _, _)
LongDivision(st, den, digits) ==
    IF digits = 0 THEN st
    ELSE LongDivision([q |-> st.q * 10 + (st.r * 10) \div den, r |-> (st.r * 10) % den],
                      den, digits - 1)

RoundDecimals(x, digits) ==
    LET a == Abs(x.n)
        st == LongDivision([q |-> a \div x.d, r |-> a % x.d], x.d, digits)
        k == IF 2 * st.r < x.d THEN st.q
             ELSE IF 2 * st.r > x.d THEN st.q + 1
             ELSE IF st.q % 2 = 0 THEN st.q ELSE st.q + 1
    IN  Rat(IF x.n < 0 THEN -k ELSE k, Pow10(digits))

RoundDecimals5(x) == RoundDecimals(x, 5)

\* ef.clean_weights() of PyPortfolioOpt (cutoff=1e-4, rounding=5): weights below
\* the cutoff in absolute value become 0, the others are rounded to 5 decimals.
clean_weights(raw) ==
    [k \in DOMAIN raw |->
        IF RLt(RAbs(raw[k]), Rat(1, 10000)) THEN Zero ELSE RoundDecimals5(raw[k])]

\* safe_clean_weights: {k: float(v)} - no renormalisation
safe_clean_weights(weights) == [k \in DOMAIN weights |-> weights[k]]

\* sort_ix = corr.index[sort_ix_indices].tolist()
SortedTickers(columns, sort_ix_indices) ==
    [i \in 1..Len(sort_ix_indices) |-> columns[sort_ix_indices[i] + 1]]

\* the end of optimize_hrp, hrp_weights being what get_rec_bipart gave
HrpReturn(columns, lib, hrp_weights) ==
    IF hrp_weights.raised
    THEN <<EqualWeights(columns), None>>
    ELSE <<safe_clean_weights(hrp_weights.w), lib.hrp.dendro>>

\* optimize_hrp: <<weights, dendrogram_data>>
optimize_hrp(columns, lib) ==
    IF lib.hrp.status = "raise" THEN <<EqualWeights(columns), None>>
    ELSE HrpReturn(columns, lib,
                   get_rec_bipart(lib.hrp.cov,
                                  SortedTickers(columns, get_quasi_diag(lib.hrp.link))))

\* the cash test of optimize_mvo, which ignores the risk-free rate
mvo_cash_rule_nonpositive(mu_max, risk_free_rate) == RLe(mu_max, Zero)

\* if mu.max() < risk_free_rate
mvo_cash_rule(mu_max, risk_free_rate) == RLt(mu_max, risk_free_rate)

\* weights, dendro = optimize_hrp(returns); return OptimizationResult(...)
HrpOptimizationResult(r) == OptimizationResult(r[1], FALSE, None, r[2], FALSE)

optimize_with_fallback(columns, method, risk_free_rate, lib) ==
    LET equal_weights == EqualWeights(columns)
        raised == OptimizationResult(equal_weights, TRUE, "exception message", None, FALSE)
    IN  IF method = "hrp" \/ method = "nco"
        THEN HrpOptimizationResult(optimize_hrp(columns, lib))
        ELSE IF method = "mvo"
        THEN IF lib.mu.status = "raise" \/ lib.S = "raise" THEN raised
             ELSE IF mvo_cash_rule(lib.mu.max, risk_free_rate)
             THEN OptimizationResult(ZeroWeights(columns), FALSE, None, None, FALSE)
             ELSE IF lib.solve.status = "Exception"
             THEN [raised EXCEPT !.solve_attempted = TRUE]
             ELSE IF lib.solve.status = "SolverError"
             THEN OptimizationResult(ZeroWeights(columns), TRUE,
                                     "MVO Solver Failed -> Cash", None, TRUE)
             ELSE OptimizationResult(safe_clean_weights(clean_weights(lib.solve.weights)),
                                     FALSE, None, None, TRUE)
        ELSE IF method = "gmv"
        THEN IF lib.mu.status = "raise" \/ lib.S = "raise" THEN raised
             ELSE IF lib.solve.status \in {"Exception", "SolverError"}
             THEN [raised EXCEPT !.solve_attempted = TRUE]
             ELSE OptimizationResult(safe_clean_weights(clean_weights(lib.solve.weights)),
                                     FALSE, None, None, TRUE)
        ELSE OptimizationResult(equal_weights, TRUE, "Unknown method", None, FALSE)

(***************************************************************************)
(* Input spaces of the model                                               *)
(***************************************************************************)
MaxAssets == 4                       \* most assets given to get_rec_bipart
AssetNames == <<"A", "B", "C", "D", "E">>
Assets(k) == { AssetNames[i] : i \in 1..k }

Perms(S) ==
    { p \in [1..Cardinality(S) -> S] : \A i, j \in 1..Cardinality(S) : p[i] = p[j] => i = j }

\* Covariance matrices: variances 5 or 8, covariances c * s[i] * s[j] with
\* c in {-1, 0, 1} and signs s; these are positive definite for up to five assets
\* (strictly diagonally dominant).
Cov(T, variance, c, sign) ==
    [i \in T |-> [j \in T |->
        IF i = j THEN RInt(variance[i]) ELSE RInt(c * sign[i] * sign[j])]]

SignPatterns(T) ==
    { [t \in T |-> 1],
      [t \in T |-> IF t \in {"A", "C", "E"} THEN 1 ELSE -1] }

\* The covariance of perfectly hedged pairs: B = -A and D = -C, unit variances, no
\* other correlation.  It is positive semidefinite and singular.
HedgedPairs(T) ==
    [i \in T |-> [j \in T |->
        IF i = j THEN One
        ELSE IF {i, j} \in { {"A", "B"}, {"C", "D"} } THEN RInt(-1)
        ELSE Zero]]

Covariances(T) ==
    { Cov(T, v, c, sg) : v \in [T -> {5, 8}], c \in {-1, 0, 1}, sg \in SignPatterns(T) }
    \cup { HedgedPairs(T) }

\* The linkage tables of scipy over the leaves 0 .. N-1: each merge joins two
\* clusters that are still unmerged, the lower index first.
RECURSIVE LinkagesFrom(_, _, _)
LinkagesFrom(active, next, size) ==
    IF Cardinality(active) = 1 THEN {<<>>}
    ELSE UNION { { <<[l |-> p[1], r |-> p[2], n |-> size[p[1]] + size[p[2]]]>> \o rest :
                     rest \in LinkagesFrom((active \ {p[1], p[2]}) \cup {next}, next + 1,
                                           size @@ (next :> size[p[1]] + size[p[2]])) } :
                 p \in { q \in active \X active : q[1] < q[2] } }

Linkages(num) == LinkagesFrom(0..(num - 1), num, [i \in 0..(num - 1) |-> 1])

WeightDicts(T, values) == UNION { [S -> values] : S \in SUBSET T }

(***************************************************************************)
(* Calls of the pure functions: fn_args are the arguments, fn_ret the      *)
(* result, fn_pc the position ("call" before, "return" after).             *)
(***************************************************************************)
EngineIdle ==
    /\ pc = "idle"
    /\ args = None
    /\ current_idx = 0
    /\ d_idx = 0
    /\ equity_curve = <<>>
    /\ allocation_history = <<>>
    /\ rebalance_dates = <<>>
    /\ overfitting_metrics = <<>>
    /\ current_shares = EmptyDict
    /\ cash_balance = Zero
    /\ total_transaction_costs = Zero
    /\ total_turnover = Zero
    /\ last_weights = EmptyDict
    /\ latest_dendrogram_data = None
    /\ training_window_returns = {}
    /\ cycle = None

FnIdle ==
    /\ fn_pc = "idle"
    /\ fn_args = None
    /\ fn_ret = None

\* no comparison job
JobIdle ==
    /\ request = None
    /\ job = None
    /\ job_pc = "idle"
    /\ futures = None
    /\ yielded = {}
    /\ method_results = <<>>
    /\ completed_methods = 0
    /\ benchmark = None

\* ---- smooth_weights ----------------------------------------------------
SmoothingFactors == { Zero, Rat(1, 4), Rat(1, 2), One }
SmoothWeightValues == { Zero, Rat(1, 4), Rat(1, 2), One }

InitSmooth ==
    /\ EngineIdle
    /\ JobIdle
    /\ fn_pc = "call"
    /\ fn_args \in [new_weights : WeightDicts(Assets(2), SmoothWeightValues),
                    old_weights : WeightDicts(Assets(2), SmoothWeightValues),
                    smoothing_factor : SmoothingFactors]
    /\ fn_ret = None

SmoothCall ==
    /\ fn_pc = "call"
    /\ fn_ret' = smooth_weights(fn_args.new_weights, fn_args.old_weights,
                                fn_args.smoothing_factor)
    /\ fn_pc' = "return"
    /\ UNCHANGED <<fn_args, engineVars, jobVars>>

SpecSmooth == InitSmooth /\ [][SmoothCall]_vars

\* ---- apply_volatility_scaling ------------------------------------------
VolWeightValues == { Rat(-1, 4), Zero, Rat(1, 2000), Rat(1, 2), One }
RealizedVols == { Zero, Rat(1, 2000000), Rat(6, 100), Rat(12, 100), Rat(24, 100) }
TargetVols == { Rat(5, 100), Rat(12, 100), Rat(30, 100) }

InitVol ==
    /\ EngineIdle
    /\ JobIdle
    /\ fn_pc = "call"
    /\ fn_args \in [weights : WeightDicts(Assets(2), VolWeightValues),
                    n_rows : {0, 2, VOLATILITY_LOOKBACK + 1},
                    realized_vol : RealizedVols,
                    target_vol : TargetVols]
    /\ fn_ret = None

VolCall ==
    /\ fn_pc = "call"
    /\ fn_ret' = apply_volatility_scaling(fn_args.weights, fn_args.n_rows,
                     fn_args.realized_vol, fn_args.target_vol, VOLATILITY_LOOKBACK)
    /\ fn_pc' = "return"
    /\ UNCHANGED <<fn_args, engineVars, jobVars>>

SpecVol == InitVol /\ [][VolCall]_vars

\* ---- get_rec_bipart, one action per iteration of its while loop --------
InitHRP ==
    /\ EngineIdle
    /\ JobIdle
    /\ fn_pc = "loop"
    /\ \E k \in 2..MaxAssets :
         \E cov \in Covariances(Assets(k)), sort_ix \in Perms(Assets(k)) :
            /\ fn_args = [cov |-> cov, sort_ix |-> sort_ix]
            /\ fn_ret = RecBipartStart(sort_ix)

RecBipartLoop ==
    /\ fn_pc = "loop"
    /\ Len(fn_ret.c_items) > 0
    /\ \E st \in { RecBipartIteration(fn_args.cov, fn_ret.w, fn_ret.c_items) } :
          /\ fn_ret' = st
          /\ fn_pc' = IF st.raised THEN "raised" ELSE "loop"
    /\ UNCHANGED <<fn_args, engineVars, jobVars>>

RecBipartReturn ==
    /\ fn_pc = "loop"
    /\ Len(fn_ret.c_items) = 0
    /\ fn_pc' = "return"
    /\ UNCHANGED <<fn_args, fn_ret, engineVars, jobVars>>

SpecHRP == InitHRP /\ [][RecBipartLoop \/ RecBipartReturn]_vars

\* ---- get_quasi_diag, one action per iteration of its while loop ---------
\* scipy lists the two children of a merge in either order
Orient(link, flip) ==
    [k \in 1..Len(link) |->
        IF flip[k] THEN [l |-> link[k].r, r |-> link[k].l, n |-> link[k].n] ELSE link[k]]

quasi_diag_start(link) == <<link[Len(link)].l, link[Len(link)].r>>

InitQuasiDiag ==
    /\ EngineIdle
    /\ JobIdle
    /\ fn_pc = "loop"
    /\ \E num \in 2..MaxAssets :
         \E tree \in Linkages(num), flip \in [1..(num - 1) -> BOOLEAN] :
            \E link \in { Orient(tree, flip) } :
               /\ fn_args = [link |-> link, num |-> link[Len(link)].n]
               /\ fn_ret = quasi_diag_start(link)

QuasiDiagLoopStep ==
    /\ fn_pc = "loop"
    /\ \E i \in 1..Len(fn_ret) : fn_ret[i] >= fn_args.num
    /\ fn_ret' = ExpandClusters(fn_ret, fn_args.link, fn_args.num)
    /\ UNCHANGED <<fn_pc, fn_args, engineVars, jobVars>>

QuasiDiagReturn ==
    /\ fn_pc = "loop"
    /\ \A i \in 1..Len(fn_ret) : fn_ret[i] < fn_args.num
    /\ fn_pc' = "return"
    /\ UNCHANGED <<fn_args, fn_ret, engineVars, jobVars>>

NextQuasiDiag == QuasiDiagLoopStep \/ QuasiDiagReturn

\* the loop is sequential code: an enabled iteration is always taken
SpecQuasiDiag == InitQuasiDiag /\ [][NextQuasiDiag]_vars /\ WF_vars(NextQuasiDiag)

\* ---- optimize_with_fallback --------------------------------------------
Methods == { "hrp", "nco", "gmv", "mvo", "cvar" }      \* "cvar" is not recognised
RiskFreeRates == { Rat(2, 100), Rat(4, 100), Rat(5, 100) }
MuValues == { Rat(-1, 10), Rat(2, 100), Rat(4, 100), Rat(1, 10) }
SolverWeightValues ==
    { Zero, Rat(1, 20000), Rat(1, 4), Rat(1, 3), Rat(1, 2), Rat(3, 4), Rat(19999, 20000), One }

NoHrp == [status |-> "raise", cov |-> EmptyDict, link |-> <<>>, dendro |-> None]
NoMu == [status |-> "raise", max |-> Zero]
NoSolve(status) == [status |-> status, weights |-> EmptyDict]

HrpOutcomes(columns) ==
    { NoHrp } \cup
    { [status |-> "ok", cov |-> cov, link |-> link, dendro |-> dendro] :
        cov \in Covariances(Range(columns)), link \in Linkages(Len(columns)),
        dendro \in { "dendrogram", None } }
MuOutcomes == { NoMu } \cup { [status |-> "ok", max |-> m] : m \in MuValues }
SolverSolutions(columns) ==
    { w \in [Range(columns) -> SolverWeightValues] : DictSum(w) = One }
SolveOutcomes(columns) ==
    { NoSolve("SolverError"), NoSolve("Exception") } \cup
    { [status |-> "ok", weights |-> w] : w \in SolverSolutions(columns) }

\* What the libraries may return to the optimizer `method` for a matrix with `columns`.
LibOutcomes(method, columns) ==
    IF method \in { "hrp", "nco" }
    THEN { [hrp |-> h, mu |-> NoMu, S |-> "raise", solve |-> NoSolve("Exception")] :
             h \in HrpOutcomes(columns) }
    ELSE IF method \in { "mvo", "gmv" }
    THEN { [hrp |-> NoHrp, mu |-> m, S |-> sh, solve |-> sv] :
             m \in MuOutcomes, sh \in { "ok", "raise" }, sv \in SolveOutcomes(columns) }
    ELSE { [hrp |-> NoHrp, mu |-> NoMu, S |-> "raise", solve |-> NoSolve("Exception")] }

InitOpt ==
    /\ EngineIdle
    /\ JobIdle
    /\ fn_pc = "call"
    /\ \E columns \in { <<"A", "B">>, <<"A", "B", "C">> }, method \in Methods,
          risk_free_rate \in RiskFreeRates :
         \E lib \in LibOutcomes(method, columns) :
            fn_args = [columns |-> columns, method |-> method,
                       risk_free_rate |-> risk_free_rate, lib |-> lib]
    /\ fn_ret = None

OptimizeCall ==
    /\ fn_pc = "call"
    /\ fn_ret' = optimize_with_fallback(fn_args.columns, fn_args.method,
                                        fn_args.risk_free_rate, fn_args.lib)
    /\ fn_pc' = "return"
    /\ UNCHANGED <<fn_args, engineVars, jobVars>>

SpecOpt == InitOpt /\ [][OptimizeCall]_vars

(***************************************************************************)
(* The overlays of a rebalance at the precision of floats                  *)
(*                                                                         *)
(* Elsewhere the floats of the program are exact rationals.  Here the sum  *)
(* of the values of a dict is what Python computes: the values are added   *)
(* one by one in the order of the keys and every partial sum is rounded to *)
(* the nearest float, ties to even.  A float of the model has MantissaBits *)
(* significant bits (Python's have 53).  A dict is [keys, val]: the keys   *)
(* in their order of insertion and the value of each key.  The set built   *)
(* by smooth_weights is iterated in an order that depends on the hashes of *)
(* the ticker strings, which CPython salts per process: set_order is that  *)
(* order.                                                                  *)
(***************************************************************************)
MantissaBits == 4
TARGET_VOLATILITY == Rat(12, 100)

RECURSIVE Pow2(_)
Pow2(k) == IF k = 0 THEN 1 ELSE 2 * Pow2(k - 1)

\* x * 2^e
Scale2(x, e) == IF e >= 0 THEN RMul(x, RInt(Pow2(e))) ELSE RDiv(x, RInt(Pow2(-e)))

\* the exponent e with 2^(MantissaBits - 1) <= x / 2^e < 2^MantissaBits, for x > 0
RECURSIVE FloatExponent(_, _)
FloatExponent(x, e) ==
    IF RLt(x, RInt(Pow2(MantissaBits - 1))) THEN FloatExponent(RMul(x, RInt(2)), e - 1)
    ELSE IF RLe(RInt(Pow2(MantissaBits)), x) THEN FloatExponent(RDiv(x, RInt(2)), e + 1)
    ELSE e

\* the integer nearest to x >= 0, ties to even
RoundHalfEven(x) ==
    IF 2 * (x.n % x.d) < x.d THEN x.n \div x.d
    ELSE IF 2 * (x.n % x.d) > x.d THEN (x.n \div x.d) + 1
    ELSE IF (x.n \div x.d) % 2 = 0 THEN x.n \div x.d
    ELSE (x.n \div x.d) + 1

\* x > 0 rounded to a multiple of 2^e
FloatRoundAt(x, e) == Scale2(RInt(RoundHalfEven(Scale2(x, -e))), e)

\* the float nearest to x
FloatRound(x) ==
    IF x = Zero THEN Zero
    ELSE IF RLt(x, Zero) THEN RNeg(FloatRoundAt(RNeg(x), FloatExponent(RNeg(x), 0)))
    ELSE FloatRoundAt(x, FloatExponent(x, 0))

\* sum(d.values()) over the first k keys of d
RECURSIVE SumValues(_, _)
SumValues(d, k) ==
    IF k = 0 THEN Zero
    ELSE FloatRound(RAdd(SumValues(d, k - 1), d.val[d.keys[k]]))

\* sum(weights.values())
sum_values(d) == SumValues(d, Len(d.keys))

\* a dict that lists the keys of val in the order of `order`
OrderedDict(order, val) ==
    [keys |-> SelectSeq(order, LAMBDA k : k \in DOMAIN val), val |-> val]

\* smooth_weights, with the order of the keys of the dict it returns: that of
\* new_weights when new_weights itself is returned, else the order in which the set
\* of line 41 is iterated
smooth_weights_keys(new_weights, old_weights, smoothing_factor, set_order) ==
    IF old_weights.val = EmptyDict \/ RLe(smoothing_factor, Zero)
    THEN new_weights
    ELSE OrderedDict(set_order,
                     smooth_weights(new_weights.val, old_weights.val, smoothing_factor))

\* if not weights or sum(weights.values()) < 0.001
cash_guard(weights, columns) ==
    RLt(sum_values(weights), FloatRound(CashEpsilon))

\* apply_volatility_scaling at this precision: the scaled weights
scale_weights(weights, n_rows, realized_vol, target_vol, lookback, columns) ==
    IF weights.val = EmptyDict \/ cash_guard(weights, columns) THEN weights
    ELSE IF RecentRows(n_rows, lookback) = {} THEN weights
    ELSE IF RLt(realized_vol, VolEpsilon) THEN weights
    ELSE [keys |-> weights.keys,
          val |-> [k \in DOMAIN weights.val |->
                     FloatRound(RMul(weights.val[k],
                                     FloatRound(vol_scale(target_vol, realized_vol))))]]

\* sum(target_weights.values()) > 0.001
invested_test(target_weights, columns) ==
    RLt(FloatRound(CashEpsilon), sum_values(target_weights))

\* lines 295-301, smoothed being the dict that lines 291-292 left in target_weights
overlay_scaling(a, smoothed) ==
    IF a.enable_volatility_scaling /\ invested_test(smoothed, a.columns)
    THEN scale_weights(smoothed, a.n_rows, a.realized_vol, a.target_volatility,
                       VOLATILITY_LOOKBACK, a.columns)
    ELSE smoothed

\* lines 291-292
overlay_smoothing(a, set_order) ==
    IF a.last_weights.val # EmptyDict
    THEN smooth_weights_keys(a.optimizer_weights, a.last_weights,
                             TURNOVER_SMOOTHING_FACTOR, set_order)
    ELSE a.optimizer_weights

\* lines 286-304: the target weights of a rebalance, for the order in which the set
\* of smooth_weights is iterated
overlay_target_weights(a, set_order) == overlay_scaling(a, overlay_smoothing(a, set_order))

\* ---- the inputs ----------------------------------------------------------
OverlayColumns == <<"A", "B", "C">>
\* floats of the model: previous weights whose total is near four times 0.001
OverlayWeightValues == { Zero, Rat(3, 8192), Rat(7, 2048), Rat(1, 4), Rat(1, 2) }

InitOverlay ==
    /\ EngineIdle
    /\ JobIdle
    /\ fn_pc = "call"
    /\ \E last \in [Range(OverlayColumns) -> OverlayWeightValues],
          enable \in BOOLEAN, realized_vol \in { Rat(6, 100), Rat(24, 100) },
          empty \in BOOLEAN :
         fn_args = [columns |-> OverlayColumns,
                    \* the optimizer went to cash
                    optimizer_weights |->
                        OrderedDict(OverlayColumns, ZeroWeights(OverlayColumns)),
                    last_weights |->
                        IF empty THEN OrderedDict(OverlayColumns, EmptyDict)
                        ELSE OrderedDict(OverlayColumns, last),
                    enable_volatility_scaling |-> enable,
                    n_rows |-> 2,
                    realized_vol |-> realized_vol,
                    target_volatility |-> TARGET_VOLATILITY]
    /\ fn_ret = None

\* one run of lines 286-304; the order of the set is not fixed by the inputs
OverlayCall ==
    /\ fn_pc = "call"
    /\ \E set_order \in Perms(Range(fn_args.columns)) :
          fn_ret' = [set_order |-> set_order,
                     target_weights |-> overlay_target_weights(fn_args, set_order)]
    /\ fn_pc' = "return"
    /\ UNCHANGED <<fn_args, engineVars, jobVars>>

SpecOverlay == InitOverlay /\ [][OverlayCall]_vars

(***************************************************************************)
(* backtester.walk_forward_backtest                                        *)
(*                                                                         *)
(* A panel is a pair of tables prices[i][ticker] (closes) and              *)
(* open_prices[i][ticker] over the aligned dates i = 0 .. n_dates - 1.     *)
(* risk_free_rate is a float ([kind |-> "scalar", value]) or a pd.Series   *)
(* ([kind |-> "series", obs, raises]): obs maps the positions that carry   *)
(* an observation to the annual rate, raises tells that Series.asof raises *)
(* (pandas does for an index that is not sorted, or whose time zone does   *)
(* not match the dates).                                                   *)
(* pc: "start" (called), "loop" (at the while test), "holding" (in the     *)
(* for loop over the holding period), "done" (returned), "rejected" (the   *)
(* HTTPException of the length check), "raised" (an exception left the     *)
(* function).                                                              *)
(***************************************************************************)
Tickers == <<"A", "B">>                      \* list(prices.columns)
TickerSet == Range(Tickers)
TRADING_DAYS_PER_YEAR == 252                 \* infer_trading_frequency, business days
NanRateFallback == Rat(4, 100)               \* current_rf_annual = 0.04 # Fallback
DEFAULT_RISK_FREE_RATE == Rat(45, 1000)      \* config.DEFAULT_RISK_FREE_RATE = 0.045

Max(S) == CHOOSE m \in S : \A k \in S : k <= m

\* float(risk_free_rate.asof(date)) with the NaN replacement, or float(risk_free_rate)
RfLookup(risk_free_rate, date) ==
    IF risk_free_rate.kind = "scalar"
    THEN [raised |-> FALSE, rate |-> risk_free_rate.value]
    ELSE IF risk_free_rate.raises
    THEN [raised |-> TRUE, rate |-> Zero]
    ELSE LET known == { k \in DOMAIN risk_free_rate.obs : k <= date }
         IN  IF known = {}
             THEN [raised |-> FALSE, rate |-> NanRateFallback]
             ELSE [raised |-> FALSE, rate |-> risk_free_rate.obs[Max(known)]]

\* a training slice that keeps the row of the rebalance day
train_returns_through_today(t, training_window) ==
    PySlice(t, -training_window, t)

\* returns.loc[:current_date].iloc[-training_window-1:-1]: the dates of the rows
\* kept.  returns holds the rows dated 1 .. n_dates - 1, so returns.loc[:current_date]
\* has t = current_idx rows and its k-th row is dated k.
train_returns(t, training_window) ==
    PySlice(t, -training_window - 1, -1)

\* execution on the rebalance day itself
execution_same_day(t, n_dates) == t

\* execution_idx = min(current_idx + 1, len(dates) - 1)
execution_idx(t, n_dates) ==
    IF t + 1 < n_dates - 1 THEN t + 1 ELSE n_dates - 1

\* a holding period that starts the day after the execution day
holding_start_after_execution(execution) == execution + 1

\* holding_start_idx = execution_idx
holding_start_idx(execution) == execution

\* sum(shares.get(t, 0.0) * row.get(t, 0.0) for t in tickers)
HoldingsValue(shares, row) ==
    RSumOver([t \in TickerSet |-> RMul(DictGet(shares, t), row[t])], TickerSet)

\* lines 257-284: what the try block and its except leave behind, rf being the
\* outcome of the risk-free lookup and opt_result that of optimize_with_fallback
CycleWeights(rf, opt_result, dendrogram) ==
    [rf_raised |-> rf.raised,
     current_rf_annual |-> rf.rate,
     optimizer_weights |-> IF rf.raised THEN EqualWeights(Tickers) ELSE opt_result.weights,
     fallback_flag |-> IF rf.raised THEN TRUE ELSE opt_result.fallback_used,
     dendrogram |-> IF ~rf.raised /\ opt_result.dendrogram_data # None
                    THEN opt_result.dendrogram_data ELSE dendrogram]

\* lines 268-276
OptimizeAtRate(a, rf, dendrogram, lib) ==
    CycleWeights(rf, optimize_with_fallback(Tickers, a.method, rf.rate, lib), dendrogram)

\* lines 257-284
OptimizeCycle(a, t, dendrogram, lib) ==
    OptimizeAtRate(a, RfLookup(a.risk_free_rate, t), dendrogram, lib)

\* lines 291-292
SmoothingOverlay(optimizer_weights, last_w) ==
    IF last_w # EmptyDict
    THEN smooth_weights(optimizer_weights, last_w, TURNOVER_SMOOTHING_FACTOR)
    ELSE optimizer_weights

\* lines 295-301
VolatilityOverlay(a, smoothed, n_train, lib) ==
    IF a.enable_volatility_scaling /\ RLt(CashEpsilon, DictSum(smoothed))
    THEN apply_volatility_scaling(smoothed, n_train, lib.realized_vol,
                                  a.target_volatility, VOLATILITY_LOOKBACK).weights
    ELSE smoothed

\* lines 286-304: the target weights of the cycle
TargetWeights(a, t, optimizer_weights, last_w, lib) ==
    VolatilityOverlay(a, SmoothingOverlay(optimizer_weights, last_w),
                      Cardinality(train_returns(t, a.training_window)), lib)

\* lines 317-323
ValueBeforeTrade(a, t, shares, cash) ==
    IF t = a.training_window THEN One
    ELSE RAdd(HoldingsValue(shares, a.prices[t]), cash)

\* lines 326-338
TurnoverValue(value_before_trade, target_weights, shares, prices_at_execution) ==
    RSumOver([k \in TickerSet |->
                RAbs(RSub(RMul(value_before_trade, DictGet(target_weights, k)),
                          RMul(DictGet(shares, k), prices_at_execution[k])))],
             TickerSet)

\* lines 345-360: the holdings bought with net_value
NewHoldings(net_value, target_weights, prices_at_execution) ==
    LET val_to_invest == [k \in TickerSet |-> RMul(net_value, DictGet(target_weights, k))]
    IN  [new_shares |->
            [k \in TickerSet |->
                IF RLt(Zero, prices_at_execution[k])
                THEN RDiv(val_to_invest[k], prices_at_execution[k])
                ELSE Zero],
         cash_balance |-> RMax(Zero, RSub(net_value, RSumOver(val_to_invest, TickerSet)))]

\* lines 340-360
Settle(value_before_trade, turnover_value, cost, holdings) ==
    [value_before_trade |-> value_before_trade,
     turnover_value |-> turnover_value,
     cost |-> cost,
     net_value |-> RSub(value_before_trade, cost),
     new_shares |-> holdings.new_shares,
     cash_balance |-> holdings.cash_balance]

\* lines 340-342
TradeCost(value_before_trade, turnover_value, target_weights, prices_at_execution, cost) ==
    Settle(value_before_trade, turnover_value, cost,
           NewHoldings(RSub(value_before_trade, cost), target_weights, prices_at_execution))

\* a cost rate that reads the basis points as percents
transaction_cost_pct_of_percents(transaction_cost_bps) ==
    RDiv(transaction_cost_bps, RInt(100))

\* transaction_cost_pct = transaction_cost_bps / 10000.0
transaction_cost_pct(transaction_cost_bps) ==
    RDiv(transaction_cost_bps, RInt(10000))

\* lines 326-360
TradeTurnover(a, value_before_trade, turnover_value, target_weights, prices_at_execution) ==
    TradeCost(value_before_trade, turnover_value, target_weights, prices_at_execution,
              RMul(turnover_value, transaction_cost_pct(a.transaction_cost_bps)))

\* lines 317-360
TradeValue(a, shares, value_before_trade, target_weights, prices_at_execution) ==
    TradeTurnover(a, value_before_trade,
                  TurnoverValue(value_before_trade, target_weights, shares,
                                prices_at_execution),
                  target_weights, prices_at_execution)

\* lines 306-360: the trade of the cycle at the open of the execution day
Trade(a, t, shares, cash, target_weights) ==
    TradeValue(a, shares, ValueBeforeTrade(a, t, shares, cash), target_weights,
               a.open_prices[execution_idx(t, a.n_dates)])

\* the locals of the iteration, o being the result of OptimizeCycle and tr of Trade
CycleLocals(a, t, lib, o, target_weights, tr) ==
    [train_rows |-> train_returns(t, a.training_window),
     lib |-> lib,
     rf_raised |-> o.rf_raised,
     current_rf_annual |-> o.current_rf_annual,
     optimizer_weights |-> o.optimizer_weights,
     fallback_flag |-> o.fallback_flag,
     dendrogram |-> o.dendrogram,
     target_weights |-> target_weights,
     execution_idx |-> execution_idx(t, a.n_dates),
     prices_at_execution |-> a.open_prices[execution_idx(t, a.n_dates)],
     prices_at_valuation |-> a.prices[t],
     value_before_trade |-> tr.value_before_trade,
     turnover_value |-> tr.turnover_value,
     cost |-> tr.cost,
     net_value |-> tr.net_value,
     new_shares |-> tr.new_shares,
     cash_balance |-> tr.cash_balance,
     alloc_entry |->
        [date |-> t,
         weights |-> [k \in TickerSet |-> RoundDecimals(DictGet(target_weights, k), 4)],
         fallback |-> o.fallback_flag],
     next_rebalance_idx |->
        IF t + a.rebalancing_window < a.n_dates THEN t + a.rebalancing_window
        ELSE a.n_dates,
     period_values |-> <<>>]

\* lines 306-381
CycleTrade(a, t, shares, cash, lib, o, target_weights) ==
    CycleLocals(a, t, lib, o, target_weights, Trade(a, t, shares, cash, target_weights))

\* lines 286-381
CycleOverlays(a, t, shares, cash, last_w, lib, o) ==
    CycleTrade(a, t, shares, cash, lib, o,
               TargetWeights(a, t, o.optimizer_weights, last_w, lib))

\* lines 246-381: one pass of the loop body up to the holding period, for the
\* library outcome lib.  The result holds the locals of the iteration and the new
\* values of the variables of the function.
RebalanceCycle(a, t, shares, cash, last_w, dendrogram, lib) ==
    CycleOverlays(a, t, shares, cash, last_w, lib, OptimizeCycle(a, t, dendrogram, lib))

NoCycle ==
    [train_rows |-> {}, lib |-> None, rf_raised |-> FALSE, current_rf_annual |-> Zero,
     optimizer_weights |-> EmptyDict, fallback_flag |-> FALSE, dendrogram |-> None,
     target_weights |-> EmptyDict, execution_idx |-> 0,
     prices_at_execution |-> EmptyDict, prices_at_valuation |-> EmptyDict,
     value_before_trade |-> Zero, turnover_value |-> Zero, cost |-> Zero,
     net_value |-> Zero, new_shares |-> EmptyDict, cash_balance |-> Zero,
     alloc_entry |-> [date |-> 0, weights |-> EmptyDict, fallback |-> FALSE],
     next_rebalance_idx |-> 0, period_values |-> <<>>]

\* ---- the inputs of the model ---------------------------------------------
MaxLen == 5                                  \* most rows of the aligned panel
TrainingWindows == 1..3
RebalancingWindows == 1..3

\* Price tables: in "swing" the close and the open of A alternate between 1 and 2
\* (the open of a day differs from its close and from the open of the next day) and
\* B closes at 1 and opens at 2; "flat" quotes 1 throughout; "halted" is flat with
\* a zero open of B at index 3.
ClosePrice(panel, i, t) ==
    IF panel = "swing" THEN (IF t = "A" THEN RInt(1 + (i % 2)) ELSE One)
    ELSE One
OpenPrice(panel, i, t) ==
    IF panel = "swing" THEN (IF t = "A" THEN RInt(2 - (i % 2)) ELSE RInt(2))
    ELSE IF panel = "halted" /\ t = "B" /\ i = 3 THEN Zero
    ELSE One
Panels == { "swing", "flat", "halted" }

\* Risk-free inputs.  The integers of the model have 32 bits, so the rates are
\* chosen to keep the fractions short: the annual rate 63 is a daily rate of 1/4,
\* and 2500 basis points are a cost of 1/4 of the turnover.
ScalarRate(v) == [kind |-> "scalar", value |-> v, obs |-> EmptyDict, raises |-> FALSE]
SeriesRate(obs, raises) == [kind |-> "series", value |-> Zero, obs |-> obs, raises |-> raises]
RfInputs ==
    { ScalarRate(Zero), ScalarRate(RInt(63)),
      SeriesRate([k \in {0} |-> RInt(63)], FALSE),
      SeriesRate([k \in {4} |-> RInt(63)], FALSE),
      SeriesRate([k \in {0} |-> RInt(63)], TRUE) }

EngineMethods == { "hrp", "mvo", "cvar" }
CostsBps == { Zero, RInt(2500) }

\* the backtest settings, one of them at most away from its plain value
Settings ==
    { s \in [method : EngineMethods, risk_free_rate : RfInputs,
             transaction_cost_bps : CostsBps, enable_volatility_scaling : BOOLEAN,
             panel : Panels] :
        Cardinality({ f \in { "rf", "cost", "vol", "panel" } :
                        \/ f = "rf" /\ s.risk_free_rate # ScalarRate(Zero)
                        \/ f = "cost" /\ s.transaction_cost_bps # Zero
                        \/ f = "vol" /\ s.enable_volatility_scaling
                        \/ f = "panel" /\ s.panel # "flat" }) <= 1 }

\* what the libraries may return in one cycle of the backtest
EngineHrp ==
    [status |-> "ok",
     cov |-> Cov(TickerSet, [t \in TickerSet |-> 2], 1,
                 [t \in TickerSet |-> 1]),
     link |-> <<[l |-> 0, r |-> 1, n |-> 2]>>,
     dendro |-> "dendrogram"]
EngineSolve ==
    [status |-> "ok", weights |-> [t \in TickerSet |-> IF t = "A" THEN One ELSE Zero]]
EngineLibOutcomes(method, rf, vol) ==
    LET base ==
          IF method = "hrp"
          THEN { [hrp |-> h, mu |-> NoMu, S |-> "raise", solve |-> NoSolve("Exception")] :
                   h \in { NoHrp, EngineHrp } }
          ELSE IF method = "mvo"
          THEN { [hrp |-> NoHrp, mu |-> NoMu, S |-> "ok", solve |-> NoSolve("Exception")],
                 [hrp |-> NoHrp, mu |-> [status |-> "ok", max |-> RSub(rf, Rat(1, 100))],
                  S |-> "ok", solve |-> EngineSolve],
                 [hrp |-> NoHrp, mu |-> [status |-> "ok", max |-> RAdd(rf, Rat(1, 100))],
                  S |-> "ok", solve |-> NoSolve("SolverError")],
                 [hrp |-> NoHrp, mu |-> [status |-> "ok", max |-> RAdd(rf, Rat(1, 100))],
                  S |-> "ok", solve |-> EngineSolve] }
          ELSE { [hrp |-> NoHrp, mu |-> NoMu, S |-> "raise", solve |-> NoSolve("Exception")] }
        vols == IF vol THEN { Rat(6, 100), Rat(24, 100) } ELSE { Zero }
    IN  { [hrp |-> b.hrp, mu |-> b.mu, S |-> b.S, solve |-> b.solve, realized_vol |-> v] :
            b \in base, v \in vols }

\* ---- the state machine -----------------------------------------------------
Init ==
    /\ FnIdle
    /\ JobIdle
    /\ pc = "start"
    /\ \E n_dates \in 2..MaxLen, training_window \in TrainingWindows,
          rebalancing_window \in RebalancingWindows, s \in Settings :
         args = [n_dates |-> n_dates,
                 training_window |-> training_window,
                 rebalancing_window |-> rebalancing_window,
                 method |-> s.method,
                 risk_free_rate |-> s.risk_free_rate,
                 transaction_cost_bps |-> s.transaction_cost_bps,
                 enable_volatility_scaling |-> s.enable_volatility_scaling,
                 target_volatility |-> TARGET_VOLATILITY,
                 prices |-> [i \in 0..(n_dates - 1) |->
                               [t \in TickerSet |-> ClosePrice(s.panel, i, t)]],
                 open_prices |-> [i \in 0..(n_dates - 1) |->
                                    [t \in TickerSet |-> OpenPrice(s.panel, i, t)]]]
    /\ current_idx = 0
    /\ d_idx = 0
    /\ equity_curve = <<>>
    /\ allocation_history = <<>>
    /\ rebalance_dates = <<>>
    /\ overfitting_metrics = <<>>
    /\ current_shares = EmptyDict
    /\ cash_balance = Zero
    /\ total_transaction_costs = Zero
    /\ total_turnover = Zero
    /\ last_weights = EmptyDict
    /\ latest_dendrogram_data = None
    /\ training_window_returns = {}
    /\ cycle = NoCycle

\* lines 188-242, the panel long enough
Start ==
    /\ pc = "start"
    /\ args.n_dates >= args.training_window + 1
    /\ pc' = "loop"
    /\ current_idx' = args.training_window
    /\ current_shares' = [t \in TickerSet |-> Zero]
    /\ UNCHANGED <<args, d_idx, equity_curve, allocation_history, rebalance_dates,
                   overfitting_metrics, cash_balance, total_transaction_costs,
                   total_turnover, last_weights, latest_dendrogram_data, cycle, training_window_returns, fnVars, jobVars>>

\* lines 200-201: raise HTTPException(400, "Not enough data ...")
RejectShortPanel ==
    /\ pc = "start"
    /\ args.n_dates < args.training_window + 1
    /\ pc' = "rejected"
    /\ UNCHANGED <<args, current_idx, d_idx, equity_curve, allocation_history,
                   rebalance_dates, overfitting_metrics, current_shares, cash_balance,
                   total_transaction_costs, total_turnover, last_weights,
                   latest_dendrogram_data, cycle, training_window_returns, fnVars, jobVars>>

\* lines 244-254: the training slice is empty, the cycle is skipped
SkipEmptyTraining ==
    /\ pc = "loop"
    /\ current_idx < args.n_dates
    /\ train_returns(current_idx, args.training_window) = {}
    /\ current_idx' = current_idx + args.rebalancing_window
    /\ UNCHANGED <<args, pc, d_idx, equity_curve, allocation_history, rebalance_dates,
                   overfitting_metrics, current_shares, cash_balance,
                   total_transaction_costs, total_turnover, last_weights,
                   latest_dendrogram_data, cycle, training_window_returns, fnVars, jobVars>>

\* lines 244-381: optimise, overlay, trade and record the allocation
Rebalance ==
    /\ pc = "loop"
    /\ current_idx < args.n_dates
    /\ train_returns(current_idx, args.training_window) # {}
    /\ \E lib \in EngineLibOutcomes(args.method,
                                    RfLookup(args.risk_free_rate, current_idx).rate,
                                    args.enable_volatility_scaling) :
         \E c \in { RebalanceCycle(args, current_idx, current_shares, cash_balance,
                                   last_weights, latest_dendrogram_data, lib) } :
             /\ cycle' = c
             /\ latest_dendrogram_data' = c.dendrogram
             /\ last_weights' = c.target_weights
             /\ total_transaction_costs' = RAdd(total_transaction_costs, c.cost)
             /\ total_turnover' = RAdd(total_turnover, c.turnover_value)
             /\ current_shares' = c.new_shares
             /\ cash_balance' = c.cash_balance
             /\ allocation_history' = Append(allocation_history, c.alloc_entry)
             /\ rebalance_dates' = Append(rebalance_dates, current_idx)
             /\ d_idx' = holding_start_idx(c.execution_idx)
    /\ pc' = "holding"
    /\ UNCHANGED <<args, current_idx, equity_curve, overfitting_metrics, training_window_returns, fnVars, jobVars>>

\* lines 382-408: one day of the holding period
HoldingDay ==
    /\ pc = "holding"
    /\ d_idx < cycle.next_rebalance_idx
    /\ LET rf == IF d_idx > current_idx
                 THEN RfLookup(args.risk_free_rate, d_idx)
                 ELSE [raised |-> FALSE, rate |-> Zero]
           daily_rf_rate == RDiv(rf.rate, RInt(TRADING_DAYS_PER_YEAR))
           cash == IF d_idx > current_idx
                   THEN RMul(cash_balance, RAdd(One, daily_rf_rate))
                   ELSE cash_balance
           day_val == RAdd(HoldingsValue(current_shares, args.prices[d_idx]), cash)
       IN  /\ ~rf.raised
           /\ cash_balance' = cash
           /\ equity_curve' = Append(equity_curve,
                                     [date |-> d_idx, value |-> RoundDecimals(day_val, 6)])
           /\ cycle' = [cycle EXCEPT !.period_values = Append(@, day_val)]
    /\ d_idx' = d_idx + 1
    /\ UNCHANGED <<args, pc, current_idx, allocation_history, rebalance_dates,
                   overfitting_metrics, current_shares, total_transaction_costs,
                   total_turnover, last_weights, latest_dendrogram_data, training_window_returns, fnVars, jobVars>>

\* line 394: risk_free_rate.asof(d_date) raises, outside every try block
HoldingDayLookupRaises ==
    /\ pc = "holding"
    /\ d_idx < cycle.next_rebalance_idx
    /\ d_idx > current_idx
    /\ RfLookup(args.risk_free_rate, d_idx).raised
    /\ pc' = "raised"
    /\ UNCHANGED <<args, current_idx, d_idx, equity_curve, allocation_history,
                   rebalance_dates, overfitting_metrics, current_shares, cash_balance,
                   total_transaction_costs, total_turnover, last_weights,
                   latest_dendrogram_data, cycle, training_window_returns, fnVars, jobVars>>

\* lines 410-438: the overfitting entry of the period, then the advance.  The
\* Sharpe ratios of a period that is not in cash are left to their inputs.
EndPeriod ==
    /\ pc = "holding"
    /\ d_idx >= cycle.next_rebalance_idx
    /\ overfitting_metrics' =
          Append(overfitting_metrics,
                 [date |-> current_idx,
                  is_cash_mode |-> RLt(DictSum(cycle.target_weights), CashEpsilon),
                  train_rows |-> cycle.train_rows,
                  period_values |-> cycle.period_values])
    /\ current_idx' = cycle.next_rebalance_idx
    /\ pc' = "loop"
    /\ UNCHANGED <<args, d_idx, equity_curve, allocation_history, rebalance_dates,
                   current_shares, cash_balance, total_transaction_costs, total_turnover,
                   last_weights, latest_dendrogram_data, cycle, training_window_returns, fnVars, jobVars>>

\* training_window_returns = returns.iloc[-training_window:]: the dates of the rows
\* kept; returns has n_dates - 1 rows and its k-th row is dated k
final_risk_returns(n_dates, training_window) ==
    PySlice(n_dates - 1, -training_window, n_dates - 1)

\* lines 440-456: the loop is over, the function returns its collections
Finish ==
    /\ pc = "loop"
    /\ current_idx >= args.n_dates
    /\ pc' = "done"
    /\ training_window_returns' = final_risk_returns(args.n_dates, args.training_window)
    /\ UNCHANGED <<args, current_idx, d_idx, equity_curve, allocation_history,
                   rebalance_dates, overfitting_metrics, current_shares, cash_balance,
                   total_transaction_costs, total_turnover, last_weights,
                   latest_dendrogram_data, cycle, fnVars, jobVars>>

Next ==
    \/ Start
    \/ RejectShortPanel
    \/ SkipEmptyTraining
    \/ Rebalance
    \/ HoldingDay
    \/ HoldingDayLookupRaises
    \/ EndPeriod
    \/ Finish

Spec == Init /\ [][Next]_vars

(***************************************************************************)
(* routes.run_comparison_job                                               *)
(*                                                                         *)
(* The orchestrator is the background task that runs run_comparison_job;   *)
(* the pool has min(3, 4) = 3 workers, so the three _run_strategy tasks    *)
(* start when they are submitted and run concurrently with one another and *)
(* with the as_completed loop of the orchestrator.  A worker runs          *)
(* walk_forward_backtest, which calls progress_callback once per loop      *)
(* iteration (backtester.py 435-438), and then builds its MethodResult.    *)
(* What the backtest, the providers and the metrics of a task give is an   *)
(* outcome chosen when the task returns.  The request has passed the       *)
(* validation of CompareRequest (at least two tickers).                    *)
(* job_pc: "queued" (task added), "setup", "parallel" (inside the pool     *)
(* block), "post", "frontier", "finalize", "done".                         *)
(***************************************************************************)
methods_to_run == <<"hrp", "gmv", "mvo">>
total_methods == Len(methods_to_run)
progress_per_method == 70 \div total_methods
\* f"Completed {METHOD_NAMES.get(method, method)}..."
CompletedMessage ==
    [hrp |-> "Completed HRP (Hierarchical Risk Parity)...",
     gmv |-> "Completed GMV (Global Minimum Variance)...",
     mvo |-> "Completed MVO (Mean-Variance Max Sharpe)..."]
NoResultsError == "Could not generate results for any method"
\* loop iterations of one backtest
MaxCycles == 2

\* None where the other values are records; a record that is a value has none = FALSE
Nothing == [none |-> TRUE]

\* JobManager.create_job: the entry of the new job
create_job ==
    [status |-> "queued", progress |-> 0, message |-> "Initializing...",
     result |-> Nothing, error |-> None]

\* JobManager.update_job
update_job(j, progress, message, status, result, error) ==
    [j EXCEPT !.progress = progress,
              !.message = message,
              !.status = IF status # None THEN status ELSE @,
              !.result = IF ~result.none THEN result ELSE @,
              !.error = IF error # None THEN error ELSE @]

\* a callback that reports the progress of its method to the job store
reporting_callback(j, p) == update_job(j, p, "Running", None, Nothing, None)

\* noop_callback = lambda p: None
noop_callback(j, p) == j

\* what walk_forward_backtest and the metrics give to one task
\* "rejected" is the HTTPException of the length check of walk_forward_backtest
StrategyOutcomes ==
    [backtest : {"rejected", "raises", "empty", "curve"}, metrics_raise : BOOLEAN,
     sortino_ratio : 0..1]
\* detail of the HTTPException of backtester.py line 201
NotEnoughData == "Not enough data. Need at least training_window + 1 points."

\* _run_strategy that builds a result from an empty equity curve too
run_strategy_keep_empty(method, outcome) ==
    IF outcome.backtest \in {"rejected", "raises"} \/ outcome.metrics_raise THEN Nothing
    ELSE [none |-> FALSE, method |-> method, sortino_ratio |-> outcome.sortino_ratio]

\* _run_strategy: the MethodResult, or None
run_strategy(method, outcome) ==
    IF outcome.backtest \in {"rejected", "raises"} THEN Nothing   \* except Exception
    ELSE IF outcome.backtest = "empty" THEN Nothing      \* if not equity_curve
    ELSE IF outcome.metrics_raise THEN Nothing           \* except Exception
    ELSE [none |-> FALSE, method |-> method, sortino_ratio |-> outcome.sortino_ratio]

\* result = future.result(); if result: method_results.append(result)
collect_result(results, result) ==
    IF ~result.none THEN Append(results, result) ELSE results

RemoveAt(s, i) == SubSeq(s, 1, i - 1) \o SubSeq(s, i + 1, Len(s))

\* method_results.sort(key=sortino_ratio, reverse=True): stable
RECURSIVE SortBySortino(_)
SortBySortino(results) ==
    IF results = <<>> THEN <<>>
    ELSE \* the first of the results with the largest ratio
         LET i == CHOOSE i \in 1..Len(results) :
                     /\ \A j \in 1..Len(results) :
                           results[j].sortino_ratio <= results[i].sortino_ratio
                     /\ \A j \in 1..(i - 1) :
                           results[j].sortino_ratio < results[i].sortino_ratio
         IN  <<results[i]>> \o SortBySortino(RemoveAt(results, i))

\* ---- the benchmark ---------------------------------------------------------
\* benchmark_ticker.strip().upper()
Upper(ticker) == IF ticker = "spy" THEN "SPY" ELSE ticker

\* round(float(val), 6), val >= 0
Round6(val) == RoundDecimals(val, 6)

\* the values of bench_prices / start_price, rounded
NormalizedCurve(bench_prices, start_price) ==
    [i \in 1..Len(bench_prices) |-> Round6(RDiv(RInt(bench_prices[i]), RInt(start_price)))]

\* get_custom_benchmark: (benchmark_values, name); fetched is what
\* fetch_ticker_history gives, reindexed to the portfolio dates
get_custom_benchmark(benchmark_ticker, fetched) ==
    IF fetched.raises
    THEN [curve |-> <<>>, name |-> benchmark_ticker]
    ELSE IF fetched.bench_prices = <<>>
    THEN [curve |-> <<>>, name |-> benchmark_ticker]
    ELSE IF fetched.bench_prices[1] > 0
    THEN [curve |-> NormalizedCurve(fetched.bench_prices, fetched.bench_prices[1]),
          name |-> Upper(benchmark_ticker)]
    ELSE [curve |-> <<>>, name |-> Upper(benchmark_ticker)]

\* lines 195-197 and 240-243; the benchmark_curve that is None is the empty curve here:
\* the test of line 245 does not tell them apart
requested_benchmark(req, fetched) ==
    IF req.benchmark_type = "custom" /\ req.benchmark_ticker # None
    THEN get_custom_benchmark(req.benchmark_ticker, fetched)
    ELSE [curve |-> <<>>, name |-> "Equal Weight"]

\* a fallback that keeps the name of the requested benchmark
benchmark_choice_keep_name(custom, equal_weight) ==
    IF custom.curve = <<>>
    THEN [curve |-> equal_weight.curve, name |-> custom.name,
          bench_turnover |-> equal_weight.turnover]
    ELSE [curve |-> custom.curve, name |-> custom.name, bench_turnover |-> Zero]

\* lines 245-251; equal_weight is what get_equal_weight_benchmark returns
benchmark_choice(custom, equal_weight) ==
    IF custom.curve = <<>>
    THEN [curve |-> equal_weight.curve, name |-> "Equal Weight",
          bench_turnover |-> equal_weight.turnover]
    ELSE [curve |-> custom.curve, name |-> custom.name, bench_turnover |-> Zero]

\* lines 239-251
benchmark_logic(req, fetched, equal_weight) ==
    benchmark_choice(requested_benchmark(req, fetched), equal_weight)

\* what the provider gives for the benchmark ticker
FetchOutcomes ==
    [raises : BOOLEAN, bench_prices : { <<>>, <<0, 2>>, <<-1, 2>>, <<2, 3>>, <<2, 2>> }]
\* what get_equal_weight_benchmark gives
EqualWeightOutcomes ==
    [curve : { <<One, Rat(11, 10)>> }, turnover : { Zero, Rat(1, 2) }]

\* the response of the job
CompareResponse(results, bench) ==
    [none |-> FALSE, methods |-> results, benchmark_curve |-> bench.curve,
     benchmark_name |-> bench.name, benchmark_turnover |-> bench.bench_turnover]

\* ---- the job ---------------------------------------------------------------
\* short_panel: the panel that fetch_price_data returns (60 rows at least) has fewer
\* than training_window + 1 rows
Requests ==
    [benchmark_type : {"equal_weight", "custom"}, benchmark_ticker : {None, "spy"},
     short_panel : BOOLEAN]

\* start_compare_job: the job is created and the task is added
InitJob ==
    /\ EngineIdle
    /\ FnIdle
    /\ request \in Requests
    /\ job = create_job
    /\ job_pc = "queued"
    /\ futures = [m \in Range(methods_to_run) |->
                    [pc |-> "new", cycles |-> 0, outcome |-> None, result |-> Nothing]]
    /\ yielded = {}
    /\ method_results = <<>>
    /\ completed_methods = 0
    /\ benchmark = Nothing

\* a failure report that leaves the progress where it was
JobFailedKeepsProgress(error) ==
    /\ job' = update_job(job, job.progress, "Failed", "failed", Nothing, error)
    /\ job_pc' = "done"

\* except Exception as e: update_job(job_id, 0, "Failed", status="failed", error=str(e))
JobFailed(error) ==
    /\ job' = update_job(job, 0, "Failed", "failed", Nothing, error)
    /\ job_pc' = "done"

\* line 171
JobStart ==
    /\ job_pc = "queued"
    /\ job' = update_job(job, 5, "Fetching Historical Market Data...", "processing",
                         Nothing, None)
    /\ job_pc' = "setup"
    /\ UNCHANGED <<request, futures, yielded, method_results, completed_methods,
                   benchmark, engineVars, fnVars>>

\* lines 174-223: the data are fetched and the three tasks are submitted
JobSetup ==
    /\ job_pc = "setup"
    /\ job' = update_job(update_job(job, 15, "Preparing Backtest Engine...",
                                    None, Nothing, None),
                         15, "Running HRP, GMV, MVO in parallel...", None, Nothing, None)
    /\ method_results' = <<>>
    /\ completed_methods' = 0
    /\ futures' = [m \in Range(methods_to_run) |->
                     [pc |-> "running", cycles |-> 0, outcome |-> None, result |-> Nothing]]
    /\ job_pc' = "parallel"
    /\ UNCHANGED <<request, yielded, benchmark, engineVars, fnVars>>

\* a provider raises in lines 174-188
JobSetupRaises ==
    /\ job_pc = "setup"
    /\ JobFailed("fetch")
    /\ UNCHANGED <<request, futures, yielded, method_results, completed_methods,
                   benchmark, engineVars, fnVars>>

\* a worker: one loop iteration of walk_forward_backtest, ending with the call of
\* progress_callback
WorkerProgress(m) ==
    /\ job_pc = "parallel"
    /\ futures[m].pc = "running"
    /\ ~request.short_panel
    /\ futures[m].cycles < MaxCycles
    /\ job' = noop_callback(job, futures[m].cycles + 1)
    /\ futures' = [futures EXCEPT ![m].cycles = @ + 1]
    /\ UNCHANGED <<request, job_pc, yielded, method_results, completed_methods,
                   benchmark, engineVars, fnVars>>

\* a worker: _run_strategy returns
WorkerReturn(m) ==
    /\ job_pc = "parallel"
    /\ futures[m].pc = "running"
    /\ \E outcome \in StrategyOutcomes :
          /\ (outcome.backtest = "rejected") <=> request.short_panel
          /\ futures' = [futures EXCEPT ![m] = [pc |-> "finished", cycles |-> 0,
                                            outcome |-> outcome.backtest,
                                            result |-> run_strategy(m, outcome)]]
    /\ UNCHANGED <<request, job, job_pc, yielded, method_results, completed_methods,
                   benchmark, engineVars, fnVars>>

\* lines 225-236: as_completed yields a finished future
CollectFuture(m) ==
    /\ job_pc = "parallel"
    /\ futures[m].pc = "finished"
    /\ m \notin yielded
    /\ yielded' = yielded \cup {m}
    /\ method_results' = collect_result(method_results, futures[m].result)
    /\ completed_methods' = completed_methods + 1
    /\ job' = update_job(job, 15 + ((completed_methods + 1) * progress_per_method),
                         CompletedMessage[m], None, Nothing, None)
    /\ UNCHANGED <<request, job_pc, futures, benchmark, engineVars, fnVars>>

\* lines 238-268, some method has a result
JobBenchmark ==
    /\ job_pc = "parallel"
    /\ yielded = Range(methods_to_run)
    /\ method_results # <<>>
    /\ \E fetched \in FetchOutcomes, equal_weight \in EqualWeightOutcomes :
          benchmark' = [fetched |-> fetched, equal_weight |-> equal_weight,
                        chosen |-> benchmark_logic(request, fetched, equal_weight)]
    /\ job' = update_job(job, 85, "Calculating Correlation Matrix...", None, Nothing, None)
    /\ job_pc' = "post"
    /\ UNCHANGED <<request, futures, yielded, method_results, completed_methods,
                   engineVars, fnVars>>

\* lines 264-265, no method has a result
JobNoResults ==
    /\ job_pc = "parallel"
    /\ yielded = Range(methods_to_run)
    /\ method_results = <<>>
    /\ JobFailed(NoResultsError)
    /\ UNCHANGED <<request, futures, yielded, method_results, completed_methods,
                   benchmark, engineVars, fnVars>>

\* lines 270-273
JobCorrelation ==
    /\ job_pc = "post"
    /\ method_results' = SortBySortino(method_results)
    /\ job' = update_job(job, 90, "Calculating Efficient Frontier (CLA)...",
                         None, Nothing, None)
    /\ job_pc' = "frontier"
    /\ UNCHANGED <<request, futures, yielded, completed_methods, benchmark,
                   engineVars, fnVars>>

\* lines 274-281
JobFrontier ==
    /\ job_pc = "frontier"
    /\ job' = update_job(job, 98, "Finalizing Results...", None, Nothing, None)
    /\ job_pc' = "finalize"
    /\ UNCHANGED <<request, futures, yielded, method_results, completed_methods,
                   benchmark, engineVars, fnVars>>

\* lines 283-298
JobComplete ==
    /\ job_pc = "finalize"
    /\ job' = update_job(job, 100, "Optimization Complete", "completed",
                         CompareResponse(method_results, benchmark.chosen), None)
    /\ job_pc' = "done"
    /\ UNCHANGED <<request, futures, yielded, method_results, completed_methods,
                   benchmark, engineVars, fnVars>>

\* the benchmark metrics, the correlation matrix, the frontier or the response raise
JobPostRaises ==
    /\ \/ job_pc \in {"post", "frontier", "finalize"}
       \/ job_pc = "parallel" /\ yielded = Range(methods_to_run) /\ method_results # <<>>
    /\ JobFailed("post")
    /\ UNCHANGED <<request, futures, yielded, method_results, completed_methods,
                   benchmark, engineVars, fnVars>>

NextJob ==
    \/ JobStart
    \/ JobSetup
    \/ JobSetupRaises
    \/ \E m \in Range(methods_to_run) : WorkerProgress(m)
    \/ \E m \in Range(methods_to_run) : WorkerReturn(m)
    \/ \E m \in Range(methods_to_run) : CollectFuture(m)
    \/ JobBenchmark
    \/ JobNoResults
    \/ JobCorrelation
    \/ JobFrontier
    \/ JobComplete
    \/ JobPostRaises

SpecJob == InitJob /\ [][NextJob]_vars

\* run_comparison_job is sequential code and the workers of the pool return: a step
\* that can be taken is taken
SpecJobFair == SpecJob /\ WF_vars(NextJob)

\* ---- a poll during the last update_job of a job -------------------------------
\* update_job runs in the thread of the background task and get_job_status in the
\* event loop; JobManager has no lock and get_job returns the dict that update_job
\* writes.  fn_pc is the next line of update_job, fn_args its arguments and fn_ret
\* what the last poll returned.

\* where run_comparison_job makes its last call, and the progress written before it
LastCallSites ==
    { [at |-> "setup", progress |-> 5], [at |-> "parallel", progress |-> 15],
      [at |-> "parallel", progress |-> 15 + (total_methods * progress_per_method)],
      [at |-> "post", progress |-> 85], [at |-> "frontier", progress |-> 90],
      [at |-> "finalize", progress |-> 98] }

\* the arguments of the last call: line 298 or line 302
LastCalls(site) ==
    { [progress |-> 0, message |-> "Failed", status |-> "failed", result |-> Nothing,
       error |-> e] :
         e \in IF site.at = "setup" THEN {"fetch"}
               ELSE IF site.at = "parallel" THEN {NoResultsError, "post"}
               ELSE {"post"} }
    \cup IF site.at = "finalize"
         THEN { [progress |-> 100, message |-> "Optimization Complete",
                 status |-> "completed",
                 result |-> [none |-> FALSE, methods |-> methods_to_run],
                 error |-> None] }
         ELSE {}

InitPoll ==
    /\ EngineIdle
    /\ request = None
    /\ futures = None
    /\ yielded = {}
    /\ method_results = <<>>
    /\ completed_methods = 0
    /\ benchmark = None
    /\ \E site \in LastCallSites :
          /\ job_pc = site.at
          /\ job = [status |-> "processing", progress |-> site.progress,
                    message |-> "Running", result |-> Nothing, error |-> None]
          /\ fn_args \in LastCalls(site)
    /\ fn_pc = "progress"
    /\ fn_ret = [polled |-> FALSE]

pollFrame == <<request, job_pc, futures, yielded, method_results, completed_methods,
               benchmark, engineVars>>

\* jobs.py line 39
UpdateProgress ==
    /\ fn_pc = "progress"
    /\ job' = [job EXCEPT !.progress = fn_args.progress]
    /\ fn_pc' = "message"
    /\ UNCHANGED <<fn_args, fn_ret, pollFrame>>

\* line 40
UpdateMessage ==
    /\ fn_pc = "message"
    /\ job' = [job EXCEPT !.message = fn_args.message]
    /\ fn_pc' = "status"
    /\ UNCHANGED <<fn_args, fn_ret, pollFrame>>

\* lines 41-42
UpdateStatus ==
    /\ fn_pc = "status"
    /\ job' = [job EXCEPT !.status = IF fn_args.status # None THEN fn_args.status ELSE @]
    /\ fn_pc' = "result"
    /\ UNCHANGED <<fn_args, fn_ret, pollFrame>>

\* lines 43-44
UpdateResult ==
    /\ fn_pc = "result"
    /\ job' = [job EXCEPT !.result = IF ~fn_args.result.none THEN fn_args.result ELSE @]
    /\ fn_pc' = "error"
    /\ UNCHANGED <<fn_args, fn_ret, pollFrame>>

\* lines 45-46
UpdateError ==
    /\ fn_pc = "error"
    /\ job' = [job EXCEPT !.error = IF fn_args.error # None THEN fn_args.error ELSE @]
    /\ fn_pc' = "return"
    /\ UNCHANGED <<fn_args, fn_ret, pollFrame>>

\* get_job_status: the job as the store holds it when the request is served
Poll ==
    /\ fn_ret' = [polled |-> TRUE, job |-> job]
    /\ UNCHANGED <<fn_pc, fn_args, job, pollFrame>>

NextPoll ==
    \/ UpdateProgress
    \/ UpdateMessage
    \/ UpdateStatus
    \/ UpdateResult
    \/ UpdateError
    \/ Poll

SpecPoll == InitPoll /\ [][NextPoll]_vars

(***************************************************************************)
(* metrics.calculate_metrics (the drawdown) and calculate_drawdown_curve   *)
(*                                                                         *)
(* A curve is the sequence of its values, all positive.                    *)
(***************************************************************************)
MaxCurveLen == 4
CurveValues == { 90, 100, 110 }

\* equity_curve.pct_change().dropna()
pct_change(values) ==
    [i \in 1..(Len(values) - 1) |-> RSub(RDiv(RInt(values[i + 1]), RInt(values[i])), One)]

\* (1 + returns).cumprod() at position i
RECURSIVE cumprod(_, _)
cumprod(returns, i) ==
    IF i = 0 THEN One ELSE RMul(cumprod(returns, i - 1), RAdd(One, returns[i]))

\* cumulative = (1 + returns).cumprod()
cumulative_returns(returns) == [i \in 1..Len(returns) |-> cumprod(returns, i)]

\* cumulative.expanding().max() at position i
RECURSIVE expanding_max(_, _)
expanding_max(cumulative, i) ==
    IF i = 1 THEN cumulative[1]
    ELSE RMax(expanding_max(cumulative, i - 1), cumulative[i])

\* min of a non-empty sequence
RECURSIVE SeqMin(_, _)
SeqMin(s, i) == IF i = 1 THEN s[1] ELSE RMin(SeqMin(s, i - 1), s[i])

\* drawdowns = (cumulative - rolling_max) / rolling_max
drawdowns_of(cumulative) ==
    [i \in 1..Len(cumulative) |->
        RDiv(RSub(cumulative[i], expanding_max(cumulative, i)),
             expanding_max(cumulative, i))]

\* abs(drawdowns.min())
abs_min(drawdowns) == RAbs(SeqMin(drawdowns, Len(drawdowns)))

\* calculate_metrics(...).max_drawdown
max_drawdown(values) ==
    IF Len(values) - 1 < 2 THEN Zero
    ELSE RoundDecimals(abs_min(drawdowns_of(cumulative_returns(pct_change(values)))), 4)

\* calculate_drawdown_curve: peak after the point i
RECURSIVE running_peak(_, _)
running_peak(values, i) ==
    IF i = 0 THEN values[1]
    ELSE IF values[i] > running_peak(values, i - 1) THEN values[i]
    ELSE running_peak(values, i - 1)

\* dd = (val - peak) / peak if peak > 0 else 0
point_drawdown(val, peak) ==
    IF peak > 0 THEN RDiv(RInt(val - peak), RInt(peak)) ELSE Zero

\* calculate_drawdown_curve: the values, in percent
calculate_drawdown_curve(values) ==
    [i \in 1..Len(values) |->
        RoundDecimals(RMul(point_drawdown(values[i], running_peak(values, i)), RInt(100)), 2)]

CurvesOfLen(n) == [1..n -> CurveValues]

InitMetrics ==
    /\ EngineIdle
    /\ JobIdle
    /\ fn_pc = "call"
    /\ \E n \in 2..MaxCurveLen : \E values \in CurvesOfLen(n) :
          fn_args = [equity_curve |-> values]
    /\ fn_ret = None

\* the two functions on the same curve, as _run_strategy calls them
MetricsCall ==
    /\ fn_pc = "call"
    /\ fn_ret' = [max_drawdown |-> max_drawdown(fn_args.equity_curve),
                  drawdown_curve |-> calculate_drawdown_curve(fn_args.equity_curve)]
    /\ fn_pc' = "return"
    /\ UNCHANGED <<fn_args, engineVars, jobVars>>

SpecMetrics == InitMetrics /\ [][MetricsCall]_vars

(***************************************************************************)
(* backtester.get_equal_weight_benchmark                                   *)
(*                                                                         *)
(* The panel is given by its daily returns: returns[d][t] is the return of *)
(* ticker t on the date of index d, for d in 1 .. n_dates - 1 (the row of  *)
(* index 0 of pct_change is NaN, which the loop replaces by 0).  fn_ret    *)
(* holds the locals of the loop.                                           *)
(***************************************************************************)
MaxBenchLen == 4
BenchTickers == <<"A", "B">>
BenchReturnRows ==
    { [A |-> Zero, B |-> Zero], [A |-> One, B |-> Rat(-1, 2)], [A |-> Rat(-1, 2), B |-> One] }

\* a test that lets one more day pass before the reset
rebalance_due_late(day_counter, rebalancing_window) == day_counter > rebalancing_window

\* if day_counter >= rebalancing_window
rebalance_due(day_counter, rebalancing_window) == day_counter >= rebalancing_window

\* r = daily_rets.get(t, 0.0); if pd.isna(r): r = 0.0
daily_return(a, d, t) == IF d = 0 THEN Zero ELSE a.returns[d][t]

\* diff_sum = sum(abs(target_amount_per_asset - current_amounts[t]) for t in tickers)
diff_sum(amounts, target) ==
    RSumOver([t \in DOMAIN amounts |-> RAbs(RSub(target, amounts[t]))], DOMAIN amounts)

\* turnover_pct_event, or nothing when total_val is not positive
turnover_pct_event(amounts, total_val) ==
    IF RLt(Zero, total_val)
    THEN RDiv(RDiv(diff_sum(amounts, RDiv(total_val, RInt(Cardinality(DOMAIN amounts)))),
                   total_val),
              RInt(2))
    ELSE Zero

\* lines 516-535: the reset, total_val being sum(current_amounts.values())
bench_reset(st, total_val) ==
    [st EXCEPT !.total_turnover_pct = RAdd(@, turnover_pct_event(st.current_amounts, total_val)),
               !.current_amounts = [t \in DOMAIN @ |->
                                      RDiv(total_val, RInt(Cardinality(DOMAIN @)))],
               !.day_counter = 0]

\* lines 515-535
bench_rebalance(a, st) ==
    IF rebalance_due(st.day_counter, a.rebalancing_window)
    THEN bench_reset(st, DictSum(st.current_amounts))
    ELSE st

\* lines 541-546: current_amounts[t] *= (1 + r)
bench_drift(a, amounts, d) ==
    [t \in DOMAIN amounts |-> RMul(amounts[t], RAdd(One, daily_return(a, d, t)))]

\* lines 548-553, amounts being the amounts after the day's return
bench_point(st, amounts) ==
    [st EXCEPT !.current_amounts = amounts,
               !.benchmark_values =
                   Append(@, [date |-> st.i, value |-> RoundDecimals(DictSum(amounts), 6)]),
               !.day_counter = @ + 1,
               !.i = @ + 1]

\* lines 537-553
bench_apply(a, st) == bench_point(st, bench_drift(a, st.current_amounts, st.i))

\* one iteration of the loop of line 512
bench_day(a, st) == bench_apply(a, bench_rebalance(a, st))

\* lines 476-510: the locals before the loop
bench_start(a) ==
    [i |-> a.start_offset,
     current_amounts |-> [t \in Range(a.tickers) |-> RDiv(One, RInt(Len(a.tickers)))],
     day_counter |-> 0,
     total_turnover_pct |-> Zero,
     benchmark_values |-> <<>>,
     annualized_turnover |-> Zero]

\* annualized_turnover = total_turnover_pct / max(years, 0.01)
bench_annualized(a, total_turnover_pct) ==
    RDiv(total_turnover_pct,
         RMax(Rat(a.n_dates - a.start_offset, TRADING_DAYS_PER_YEAR), Rat(1, 100)))

InitBench ==
    /\ EngineIdle
    /\ JobIdle
    /\ fn_pc = "call"
    /\ \E n \in 2..MaxBenchLen, start_offset \in 0..MaxBenchLen, rw \in 1..2 :
         \E returns \in [1..(n - 1) -> BenchReturnRows] :
            /\ start_offset <= n
            /\ fn_args = [n_dates |-> n, start_offset |-> start_offset,
                          rebalancing_window |-> rw, tickers |-> BenchTickers,
                          returns |-> returns]
    /\ fn_ret = None

\* lines 470-510
BenchCall ==
    /\ fn_pc = "call"
    /\ fn_ret' = bench_start(fn_args)
    /\ fn_pc' = IF fn_args.start_offset >= fn_args.n_dates THEN "return" ELSE "loop"
    /\ UNCHANGED <<fn_args, engineVars, jobVars>>

\* lines 512-553
BenchDay ==
    /\ fn_pc = "loop"
    /\ fn_ret.i < fn_args.n_dates
    /\ fn_ret' = bench_day(fn_args, fn_ret)
    /\ UNCHANGED <<fn_pc, fn_args, engineVars, jobVars>>

\* lines 555-557
BenchReturn ==
    /\ fn_pc = "loop"
    /\ fn_ret.i >= fn_args.n_dates
    /\ fn_ret' = [fn_ret EXCEPT !.annualized_turnover =
                                   bench_annualized(fn_args, fn_ret.total_turnover_pct)]
    /\ fn_pc' = "return"
    /\ UNCHANGED <<fn_args, engineVars, jobVars>>

SpecBench == InitBench /\ [][BenchCall \/ BenchDay \/ BenchReturn]_vars

(***************************************************************************)
(* Claims about the pure functions                                         *)
(***************************************************************************)

\* The weights of a result come from a local recovery, not from the requested
\* optimizer's normal result.
HrpFailed(a) ==
    \/ a.lib.hrp.status = "raise"
    \/ /\ a.lib.hrp.status = "ok"
       /\ LET order == get_quasi_diag(a.lib.hrp.link)
          IN  get_rec_bipart(a.lib.hrp.cov,
                             [i \in 1..Len(order) |-> a.columns[order[i] + 1]]).raised
EstimatesOk(a) == a.lib.mu.status = "ok" /\ a.lib.S = "ok"
LocallyRecovered(a) ==
    \/ a.method \in { "hrp", "nco" } /\ HrpFailed(a)
    \/ a.method \notin { "hrp", "nco", "gmv", "mvo" }
    \/ a.method \in { "gmv", "mvo" } /\ ~EstimatesOk(a)
    \/ a.method = "gmv" /\ a.lib.solve.status # "ok"
    \/ /\ a.method = "mvo" /\ EstimatesOk(a)
       /\ ~RLt(a.lib.mu.max, a.risk_free_rate)
       /\ a.lib.solve.status # "ok"

\* C4: whenever optimize_with_fallback returns weights that come from a local
\* recovery (cash after an MVO solver failure, equal weight after an HRP numerical
\* failure, for an unrecognised method or after any other exception), the result has
\* fallback_used = true and a fallback_reason.
C4_RecoveryIsFlagged ==
    (fn_pc = "return" /\ LocallyRecovered(fn_args))
        => (fn_ret.fallback_used /\ fn_ret.fallback_reason # None)

\* C5: for method mvo, whenever the largest expected return is below the supplied
\* risk-free rate (the estimates of mu and S having been computed), the result has
\* weight 0 for every asset, the convex solve is not attempted, and the result is
\* not marked as a fallback.
C5_MvoCashRule ==
    (/\ fn_pc = "return"
     /\ fn_args.method = "mvo"
     /\ EstimatesOk(fn_args)
     /\ RLt(fn_args.lib.mu.max, fn_args.risk_free_rate))
        => /\ fn_ret.weights = ZeroWeights(fn_args.columns)
           /\ ~fn_ret.solve_attempted
           /\ ~fn_ret.fallback_used
           /\ fn_ret.fallback_reason = None

\* C5 witness: the cash rule fired although the solver would have found weights.
C5_Witness ==
    /\ fn_pc = "return"
    /\ fn_args.method = "mvo"
    /\ EstimatesOk(fn_args)
    /\ fn_args.lib.mu.max = Rat(4, 100)
    /\ fn_args.risk_free_rate = Rat(5, 100)
    /\ fn_args.lib.solve.status = "ok"
    /\ fn_ret.weights = ZeroWeights(fn_args.columns)
    /\ ~fn_ret.fallback_used

\* C6: for every method in {hrp, gmv, mvo} the weights returned by
\* optimize_with_fallback sum to 1 within 1e-6, or are cash with a sum of about 0
\* (below 0.01, as in test_weights_sum_to_one).
C6_SumIsOneOrCash ==
    (fn_pc = "return" /\ fn_args.method \in { "hrp", "gmv", "mvo" })
        => LET total == DictSum(fn_ret.weights)
           IN  \/ RLe(RAbs(RSub(total, One)), Rat(1, 1000000))
               \/ RLt(RAbs(total), Rat(1, 100))

\* The weight the claim gives an asset t: the product of the split factors on
\* its path of midpoint splits of the ordered list `items`.
RECURSIVE PathProduct(_, _, _)
PathProduct(cov, items, t) ==
    IF Len(items) <= 1 THEN One
    ELSE LET h == Len(items) \div 2
             left == SubSeq(items, 1, h)
             right == SubSeq(items, h + 1, Len(items))
             v0 == get_cluster_var(cov, left)
             v1 == get_cluster_var(cov, right)
             alpha == RSub(One, RDiv(v0, RAdd(v0, v1)))
         IN  IF t \in Range(left) THEN RMul(alpha, PathProduct(cov, left, t))
             ELSE RMul(RSub(One, alpha), PathProduct(cov, right, t))

\* every split factor of the tree of midpoint splits lies in [0, 1]
RECURSIVE AlphasInUnitInterval(_, _)
AlphasInUnitInterval(cov, items) ==
    IF Len(items) <= 1 THEN TRUE
    ELSE LET h == Len(items) \div 2
             left == SubSeq(items, 1, h)
             right == SubSeq(items, h + 1, Len(items))
             v0 == get_cluster_var(cov, left)
             v1 == get_cluster_var(cov, right)
             alpha == RSub(One, RDiv(v0, RAdd(v0, v1)))
         IN  /\ RLe(Zero, alpha) /\ RLe(alpha, One)
             /\ AlphasInUnitInterval(cov, left)
             /\ AlphasInUnitInterval(cov, right)

\* at every midpoint split the two halves have a positive total cluster variance,
\* as they have under every positive definite covariance
RECURSIVE SplitsWellConditioned(_, _)
SplitsWellConditioned(cov, items) ==
    IF Len(items) <= 1 THEN TRUE
    ELSE LET h == Len(items) \div 2
             left == SubSeq(items, 1, h)
             right == SubSeq(items, h + 1, Len(items))
         IN  /\ RLt(Zero, RAdd(get_cluster_var(cov, left), get_cluster_var(cov, right)))
             /\ SplitsWellConditioned(cov, left)
             /\ SplitsWellConditioned(cov, right)

PositiveVariances(cov) == \A t \in DOMAIN cov : RLt(Zero, cov[t][t])

\* what the bisection returns: the path products, non-negative, summing to 1
RecBipartResult ==
    /\ AlphasInUnitInterval(fn_args.cov, fn_args.sort_ix)
    /\ DOMAIN fn_ret.w = Range(fn_args.sort_ix)
    /\ \A t \in DOMAIN fn_ret.w :
          /\ fn_ret.w[t] = PathProduct(fn_args.cov, fn_args.sort_ix, t)
          /\ RLe(Zero, fn_ret.w[t])
    /\ DictSum(fn_ret.w) = One

\* the length of the longest cluster still to be bisected (0 when none is left)
MaxClusterLen(c_items) ==
    IF Len(c_items) = 0 THEN 0
    ELSE CHOOSE m \in { Len(c_items[i]) : i \in 1..Len(c_items) } :
            \A i \in 1..Len(c_items) : Len(c_items[i]) <= m

\* every pass of the while loop shortens the longest cluster, and the function
\* returns as soon as no cluster is left
C7_LoopProgress ==
    fn_pc = "loop"
        => IF Len(fn_ret.c_items) > 0
           THEN /\ fn_pc' = "loop"
                /\ MaxClusterLen(fn_ret'.c_items) < MaxClusterLen(fn_ret.c_items)
           ELSE fn_pc' = "return"

C7_WellConditioned ==
    SplitsWellConditioned(fn_args.cov, fn_args.sort_ix)
        => /\ fn_pc # "raised"
           /\ fn_pc = "return" => RecBipartResult

C8_SmoothIsPlainBlend ==
    (fn_pc = "return" /\ fn_args.old_weights # EmptyDict)
        => LET a == fn_args.smoothing_factor
               new == fn_args.new_weights
               old == fn_args.old_weights
               U == DOMAIN new \cup DOMAIN old
           IN  /\ DOMAIN fn_ret \subseteq U
               /\ \A t \in U :
                     DictGet(fn_ret, t) =
                        RAdd(RMul(RSub(One, a), DictGet(new, t)), RMul(a, DictGet(old, t)))
               /\ a = Zero => fn_ret = new
               /\ a = One => \A t \in U : DictGet(fn_ret, t) = DictGet(old, t)
               /\ (\A t \in DOMAIN new : new[t] = Zero)
                     => DictSum(fn_ret) = RMul(a, DictSum(old))

\* C8 witness: the optimizer went to cash, the previous weights were fully invested,
\* and the smoothed weights keep a quarter invested.
C8_Witness ==
    /\ fn_pc = "return"
    /\ fn_args.smoothing_factor = Rat(1, 4)
    /\ DOMAIN fn_args.new_weights = Assets(2)
    /\ \A t \in Assets(2) : fn_args.new_weights[t] = Zero
    /\ DOMAIN fn_args.old_weights = Assets(2)
    /\ DictSum(fn_args.old_weights) = One
    /\ DictSum(fn_ret) = Rat(1, 4)

VolUnchangedCase(a) ==
    \/ a.weights = EmptyDict
    \/ RLt(DictSum(a.weights), Rat(1, 1000))
    \/ a.n_rows = 0
    \/ RLt(a.realized_vol, Rat(1, 1000000))

\* C9: apply_volatility_scaling multiplies every weight by the one factor
\* min(1, target_vol / realized_vol); for non-negative weights no scaled weight
\* exceeds its input and the scaled total does not exceed the input total; when the
\* realized volatility is below 1e-6, the returns are empty or the weights sum to
\* less than 0.001, the weights are returned unchanged.
C9_NeverLeversUp ==
    fn_pc = "return"
        => LET w == fn_args.weights
               r == fn_ret.weights
           IN  /\ DOMAIN r = DOMAIN w
               /\ VolUnchangedCase(fn_args) => r = w
               /\ ~VolUnchangedCase(fn_args) =>
                     LET f == RMin(One, RDiv(fn_args.target_vol, fn_args.realized_vol))
                     IN  /\ RLe(f, One)
                         /\ \A k \in DOMAIN w : r[k] = RMul(w[k], f)
               /\ (\A k \in DOMAIN w : RLe(Zero, w[k]))
                     => /\ \A k \in DOMAIN w : RLe(r[k], w[k])
                        /\ RLe(DictSum(r), DictSum(w))

\* C9 witness: realized volatility twice the target halves a fully invested portfolio.
C9_Witness ==
    /\ fn_pc = "return"
    /\ fn_args.realized_vol = Rat(24, 100)
    /\ fn_args.target_vol = Rat(12, 100)
    /\ DictSum(fn_args.weights) = One
    /\ \A k \in DOMAIN fn_args.weights : RLe(Zero, fn_args.weights[k])
    /\ DictSum(fn_ret.weights) = Rat(1, 2)

(***************************************************************************)
(* Claims about walk_forward_backtest                                      *)
(***************************************************************************)
Last(s) == s[Len(s)]
CeilDiv(a, b) == (a + b - 1) \div b
ExpectedCycles == CeilDiv(args.n_dates - args.training_window, args.rebalancing_window)
ExpectedRebalanceIndices ==
    [k \in 1..ExpectedCycles |-> args.training_window + (k - 1) * args.rebalancing_window]

\* C1: for a panel of L >= training_window + 1 rows and rebalancing_window >= 1, a
\* backtest that has returned has rebalanced exactly at the indices training_window,
\* training_window + rebalancing_window, ... below L, and allocation_history,
\* rebalance_dates and the overfitting diagnostics each hold exactly
\* ceil((L - training_window) / rebalancing_window) entries, the first dated
\* training_window.
C1_RebalanceSchedule ==
    pc = "done"
        => /\ rebalance_dates = ExpectedRebalanceIndices
           /\ Len(allocation_history) = ExpectedCycles
           /\ Len(overfitting_metrics) = ExpectedCycles
           /\ allocation_history[1].date = args.training_window
           /\ overfitting_metrics[1].date = args.training_window

\* the closes that enter the return rows `rows` (the row dated k is close[k] / close[k-1] - 1)
ClosesOf(rows) == UNION { { k - 1, k } : k \in rows }

\* C2: at every rebalance index t every return row of the training slice handed to
\* the optimizer is dated strictly before t, so that no close of day t or later enters
\* the slice; the same holds for the slice recorded with every finished period.
C2_NoLookahead ==
    /\ pc = "holding"
          => /\ \A r \in cycle.train_rows : 1 <= r /\ r < current_idx
             /\ \A c \in ClosesOf(cycle.train_rows) : c < current_idx
    /\ \A i \in 1..Len(overfitting_metrics) :
          \A c \in ClosesOf(overfitting_metrics[i].train_rows) :
             c < overfitting_metrics[i].date

\* C2 witness: a rebalance whose slice reaches up to the day before the rebalance day.
C2_Witness ==
    /\ pc = "holding"
    /\ current_idx = 4
    /\ cycle.train_rows = { 2, 3 }

\* C3: if the risk-free lookup (or the dispatcher) raises at a rebalance, that cycle
\* uses equal weights as the optimizer output and its allocation entry carries the
\* fallback flag, and the backtest is not aborted: no exception leaves
\* walk_forward_backtest, which goes on to perform its cycles and to return.
C3_FailureNeverAborts ==
    /\ pc # "raised"
    /\ (pc = "holding" /\ cycle.rf_raised)
          => /\ cycle.optimizer_weights = EqualWeights(Tickers)
             /\ Last(allocation_history).date = current_idx
             /\ Last(allocation_history).fallback

\* C10: at every rebalance index t of a panel of L rows the new share counts are the
\* invested values divided by the OPEN prices of index min(t + 1, L - 1) (no shares
\* for a non-positive open), the turnover is measured at those opens, and the value
\* of the holdings before the trade is the old shares at the CLOSE prices of index t
\* plus the old cash (1 at the first rebalance); no close of day t prices a trade.
C10_RebalanceStep ==
    (pc = "loop" /\ pc' = "holding")
        => LET t == current_idx
               e == IF t + 1 < args.n_dates - 1 THEN t + 1 ELSE args.n_dates - 1
               open == args.open_prices[e]
               close == args.prices[t]
               c == cycle'
           IN  /\ c.execution_idx = e
               /\ d_idx' = e
               /\ c.prices_at_execution = open
               /\ c.prices_at_valuation = close
               /\ c.value_before_trade =
                     IF t = args.training_window THEN One
                     ELSE RAdd(RSumOver([k \in TickerSet |->
                                           RMul(current_shares[k], close[k])], TickerSet),
                               cash_balance)
               /\ c.turnover_value =
                     RSumOver([k \in TickerSet |->
                                 RAbs(RSub(RMul(c.value_before_trade, c.target_weights[k]),
                                           RMul(current_shares[k], open[k])))], TickerSet)
               /\ \A k \in TickerSet :
                     current_shares'[k] =
                        IF RLt(Zero, open[k])
                        THEN RDiv(RMul(c.net_value, c.target_weights[k]), open[k])
                        ELSE Zero

C10_ExecutionLag == [][C10_RebalanceStep]_vars

\* C10 witness: a rebalance at t = 3 of 5 rows bought A at the open of index 4, which
\* differs from the close of index 3 and from the open of index 3.
C10_Witness ==
    /\ pc = "holding"
    /\ current_idx = 3
    /\ args.n_dates = 5
    /\ cycle.execution_idx = 4
    /\ args.open_prices[4]["A"] = RInt(2)
    /\ args.open_prices[3]["A"] = One
    /\ args.prices[3]["A"] = RInt(2)
    /\ args.prices[3]["B"] = One
    /\ RLt(Zero, current_shares["A"])
    /\ current_shares["A"] =
          RDiv(RMul(cycle.net_value, cycle.target_weights["A"]), RInt(2))

\* C11: at every rebalance the turnover is the sum over the assets of
\* |pre-trade value * weight - current shares * open price of the execution day|, the
\* cost charged is turnover * bps / 10000, the net value is the pre-trade value minus
\* that cost, and the running totals grow by exactly that cost and that turnover.
C11_RebalanceStep ==
    (pc = "loop" /\ pc' = "holding")
        => LET c == cycle'
               open == args.open_prices[c.execution_idx]
           IN  /\ c.turnover_value =
                     RSumOver([k \in TickerSet |->
                                 RAbs(RSub(RMul(c.value_before_trade,
                                                DictGet(c.target_weights, k)),
                                           RMul(current_shares[k], open[k])))], TickerSet)
               /\ c.cost = RDiv(RMul(c.turnover_value, args.transaction_cost_bps),
                                RInt(10000))
               /\ c.net_value = RSub(c.value_before_trade, c.cost)
               /\ total_transaction_costs' = RAdd(total_transaction_costs, c.cost)
               /\ total_turnover' = RAdd(total_turnover, c.turnover_value)

\* the totals change at a rebalance only
C11_OtherStep ==
    ~(pc = "loop" /\ pc' = "holding")
        => UNCHANGED <<total_transaction_costs, total_turnover>>

\* the totals, which are the ones returned, are the sums over the rebalances made,
\* so that total cost = total turnover * bps / 10000
C11_Totals ==
    /\ Len(rebalance_dates) = 0 => total_transaction_costs = Zero /\ total_turnover = Zero
    /\ total_transaction_costs =
          RDiv(RMul(total_turnover, args.transaction_cost_bps), RInt(10000))

C11_TurnoverAndCost ==
    /\ []C11_Totals
    /\ [][C11_RebalanceStep /\ C11_OtherStep]_vars

\* C11 witness: a second rebalance that sold and bought at a cost, the run returned
C11_Witness ==
    /\ pc = "done"
    /\ Len(rebalance_dates) >= 2
    /\ RLt(Zero, cycle.cost)
    /\ RLt(cycle.cost, total_transaction_costs)

\* the dates e, e + 1, ..., n - 1
DateRange(e, n) == [i \in 1..(IF n > e THEN n - e ELSE 0) |-> e + i - 1]
\* the first and the bound of the holding period of the rebalance at index t
PeriodStart(t) == IF t + 1 < args.n_dates - 1 THEN t + 1 ELSE args.n_dates - 1
PeriodEnd(t) ==
    IF t + args.rebalancing_window < args.n_dates THEN t + args.rebalancing_window
    ELSE args.n_dates
\* the dates of the holding periods of the rebalances ts[1..k], in order
RECURSIVE PeriodDates(_, _)
PeriodDates(ts, k) ==
    IF k = 0 THEN <<>>
    ELSE PeriodDates(ts, k - 1) \o DateRange(PeriodStart(ts[k]), PeriodEnd(ts[k]))
InHoldingPeriod == pc = "holding" \/ (pc = "raised" /\ Len(rebalance_dates) > 0)
EquityDates == [i \in 1..Len(equity_curve) |-> equity_curve[i].date]

\* C12 (dates): the equity curve holds, for every finished cycle with rebalance index
\* t, exactly one point for each index d with min(t + 1, L - 1) <= d <
\* min(t + rebalancing_window, L), in increasing d, and nothing else; in the cycle
\* under way it holds the points of that range below the day reached.
C12_PointsOfCycles ==
    IF InHoldingPeriod
    THEN /\ EquityDates =
               PeriodDates(rebalance_dates, Len(rebalance_dates) - 1)
                  \o DateRange(PeriodStart(current_idx), d_idx)
         /\ Len(cycle.period_values) = Len(DateRange(PeriodStart(current_idx), d_idx))
         /\ d_idx <= PeriodEnd(current_idx) \/ d_idx = PeriodStart(current_idx)
    ELSE EquityDates = PeriodDates(rebalance_dates, Len(rebalance_dates))

\* C12 (values, order): a step either leaves the equity curve alone or appends one
\* point, dated after the last one, whose value is the current shares at the CLOSE
\* of its day plus the cash balance (rounded to 6 decimals in the curve).
C12_Append ==
    \/ equity_curve' = equity_curve
    \/ /\ pc = "holding"
       /\ Len(equity_curve') = Len(equity_curve) + 1
       /\ SubSeq(equity_curve', 1, Len(equity_curve)) = equity_curve
       /\ LET point == Last(equity_curve')
              day_val == RAdd(RSumOver([k \in TickerSet |->
                                          RMul(current_shares[k], args.prices[d_idx][k])],
                                       TickerSet),
                              cash_balance')
          IN  /\ point.date = d_idx
              /\ Len(equity_curve) > 0 => Last(equity_curve).date < point.date
              /\ point.value = RoundDecimals(day_val, 6)
              /\ Last(cycle'.period_values) = day_val
              /\ current_shares' = current_shares

\* a period ends only when its last day has been valued
C12_PeriodEnds ==
    (pc = "holding" /\ pc' = "loop")
        => d_idx = (IF PeriodEnd(current_idx) > PeriodStart(current_idx)
                    THEN PeriodEnd(current_idx) ELSE PeriodStart(current_idx))

C12_EquityPoints ==
    /\ []C12_PointsOfCycles
    /\ [][C12_Append /\ C12_PeriodEnds]_vars

\* C12 witness: a returned run of two cycles on a panel whose closes move: the
\* rebalance at 2 gave the point of day 3, the rebalance at the last index 4 its own
C12_Witness ==
    /\ pc = "done"
    /\ args.n_dates = 5
    /\ rebalance_dates = <<2, 4>>
    /\ EquityDates = <<3, 4>>
    /\ args.prices[3]["A"] # args.prices[4]["A"]
    /\ equity_curve[1].value # equity_curve[2].value

\* a step of the holding loop that valued a day
ValuedDay == pc = "holding" /\ Len(equity_curve') = Len(equity_curve) + 1

\* C13: within each holding period the cash balance left by the rebalance is unchanged
\* in the equity point of the execution day itself, and is multiplied by
\* (1 + annual rate / trading days per year) once for each later day of the period.
C13_DayStep ==
    ValuedDay
        => IF d_idx = cycle.execution_idx
           THEN cash_balance' = cash_balance
           ELSE cash_balance' =
                   RMul(cash_balance,
                        RAdd(One, RDiv(RfLookup(args.risk_free_rate, d_idx).rate,
                                       RInt(TRADING_DAYS_PER_YEAR))))

C13_InterestAfterExecution == [][C13_DayStep]_vars

\* C14: two runs of the overlays of a rebalance on identical inputs give identical
\* target weights (and so identical trades, equity points and totals): the result of
\* a run does not depend on the order in which the set of smooth_weights is iterated.
C14_Determinism ==
    fn_pc = "return"
        => \A set_order \in Perms(Range(fn_args.columns)) :
              overlay_target_weights(fn_args, set_order).val = fn_ret.target_weights.val

\* ---- the comparison job ------------------------------------------------------
ResultMethods(results) == { results[i].method : i \in 1..Len(results) }
\* the methods whose backtest raised or gave an empty equity curve
Omitted ==
    { m \in Range(methods_to_run) :
        futures[m].pc = "finished" /\ futures[m].outcome \in {"rejected", "raises", "empty"} }
\* the methods whose task produced a result
Produced ==
    { m \in Range(methods_to_run) : futures[m].pc = "finished" /\ ~futures[m].result.none }
AllFinished == \A m \in Range(methods_to_run) : futures[m].pc = "finished"

\* C15: in a comparison job a method whose backtest raises or yields an empty equity
\* curve has no result; the results collected are those of the methods that produced
\* one, each once, whatever the order in which the tasks finish and are collected;
\* a completed job returns exactly them; and the job fails for lack of results
\* exactly when all three tasks have finished and none produced a result.
C15_OmittedAndKept ==
    job_pc # "idle" =>
        /\ Omitted \cap Produced = {}
        /\ ResultMethods(method_results) = yielded \cap Produced
        /\ Len(method_results) = Cardinality(yielded \cap Produced)
        /\ job.status = "completed"
              => /\ AllFinished
                 /\ ResultMethods(job.result.methods) = Produced
                 /\ Len(job.result.methods) = Cardinality(Produced)
                 /\ Produced # {}
        /\ (job.status = "failed" /\ job.error = NoResultsError)
              => AllFinished /\ Produced = {}
        /\ (job_pc = "done" /\ AllFinished /\ Produced = {})
              => job.status = "failed" /\ job.error = NoResultsError

\* one backtest raised, one gave an empty curve after the third task had been collected,
\* and the job completed with the result of the third
C15_Witness ==
    /\ job_pc = "done"
    /\ job.status = "completed"
    /\ futures["hrp"].outcome = "raises"
    /\ futures["gmv"].outcome = "empty"
    /\ ResultMethods(job.result.methods) = {"mvo"}

\* the benchmark logic of the job has run
BenchmarkChosen == job_pc \in {"post", "frontier", "finalize"} \/ job.status = "completed"
CustomRequested == request.benchmark_type = "custom" /\ request.benchmark_ticker # None
\* the fetch raised, returned no data, or the starting price is not positive
FetchFailed(fetched) ==
    \/ fetched.raises
    \/ fetched.bench_prices = <<>>
    \/ fetched.bench_prices[1] <= 0
\* the prices of the benchmark ticker relative to the first
CustomCurve(bench_prices) ==
    [i \in 1..Len(bench_prices) |-> RDiv(RInt(bench_prices[i]), RInt(bench_prices[1]))]

\* C16: when a custom benchmark is requested and its fetch returns no data, raises or
\* yields a non-positive starting price, the job uses the equal-weight curve, the
\* equal-weight turnover and the name Equal Weight; the custom curve is used, with
\* benchmark turnover 0, only when it is non-empty; and the response of a completed
\* job carries the benchmark chosen.
C16_BenchmarkFallback ==
    BenchmarkChosen =>
        /\ (CustomRequested /\ FetchFailed(benchmark.fetched))
              => /\ benchmark.chosen.curve = benchmark.equal_weight.curve
                 /\ benchmark.chosen.bench_turnover = benchmark.equal_weight.turnover
                 /\ benchmark.chosen.name = "Equal Weight"
        /\ (CustomRequested /\ ~FetchFailed(benchmark.fetched))
              => /\ benchmark.chosen.curve = CustomCurve(benchmark.fetched.bench_prices)
                 /\ benchmark.chosen.curve # <<>>
                 /\ benchmark.chosen.bench_turnover = Zero
                 /\ benchmark.chosen.name = "SPY"
        /\ ~CustomRequested
              => /\ benchmark.chosen.curve = benchmark.equal_weight.curve
                 /\ benchmark.chosen.bench_turnover = benchmark.equal_weight.turnover
                 /\ benchmark.chosen.name = "Equal Weight"
        /\ job.status = "completed"
              => /\ job.result.benchmark_curve = benchmark.chosen.curve
                 /\ job.result.benchmark_name = benchmark.chosen.name
                 /\ job.result.benchmark_turnover = benchmark.chosen.bench_turnover

\* a custom benchmark whose first price is negative: the completed job reports the
\* equal-weight benchmark and its turnover
C16_Witness ==
    /\ job.status = "completed"
    /\ CustomRequested
    /\ ~benchmark.fetched.raises
    /\ benchmark.fetched.bench_prices = <<-1, 2>>
    /\ benchmark.equal_weight.turnover = Rat(1, 2)
    /\ job.result.benchmark_name = "Equal Weight"
    /\ job.result.benchmark_turnover = Rat(1, 2)
    /\ job.result.benchmark_curve = <<One, Rat(11, 10)>>

\* a step of a worker thread
WorkerStep ==
    \E m \in Range(methods_to_run) :
        /\ futures[m].pc = "running"
        /\ futures'[m] # futures[m]
\* the orchestrator handles one more finished method
CollectStep ==
    /\ completed_methods' = completed_methods + 1
    /\ Cardinality(yielded') = Cardinality(yielded) + 1
\* a step inside the pool block
ParallelStep == job_pc = "parallel" /\ job_pc' = "parallel"

\* C18: during the parallel phase no step of a worker thread changes the job (the
\* progress callback is a no-op); the job changes only in the orchestrator, once for
\* each finished method it handles; and when k methods have been handled the
\* progress is 15 + k * (70 \div 3), in every interleaving and completion order.
C18_Progress ==
    job_pc = "parallel" =>
        /\ completed_methods = Cardinality(yielded)
        /\ \A m \in yielded : futures[m].pc = "finished"
        /\ job.progress = 15 + (completed_methods * (70 \div 3))
        /\ job.status = "processing"
C18_WorkerSilent == WorkerStep => job' = job
C18_OncePerMethod ==
    ParallelStep => /\ (job' # job => CollectStep)
                    /\ (CollectStep => job'.progress = job.progress + (70 \div 3))
C18_OrchestratorOnly ==
    /\ []C18_Progress
    /\ [][C18_WorkerSilent /\ C18_OncePerMethod]_vars

\* two methods handled, in the reverse of the order of submission, while the third
\* worker has called its progress callback
C18_Witness ==
    /\ job_pc = "parallel"
    /\ yielded = {"mvo", "gmv"}
    /\ method_results # <<>>
    /\ method_results[1].method = "mvo"
    /\ futures["hrp"].pc = "running"
    /\ futures["hrp"].cycles = MaxCycles
    /\ completed_methods = 2
    /\ job.progress = 61

\* ---- the drawdown ------------------------------------------------------------
\* the largest of (values[i] - values[j]) / values[i] over i <= j
RECURSIVE LargestDecline(_, _, _)
LargestDecline(values, i, j) ==
    IF i > Len(values) THEN Zero
    ELSE IF j > Len(values) THEN LargestDecline(values, i + 1, i + 1)
    ELSE RMax(RDiv(RInt(values[i] - values[j]), RInt(values[i])),
              LargestDecline(values, i, j + 1))

\* C17: for a curve of at least 3 positive points, the max_drawdown of
\* calculate_metrics is the largest relative decline (peak - later value) / peak, the
\* peak ranging over all points, the first included (to the 4 decimals reported), and
\* equals the magnitude of the most negative value of calculate_drawdown_curve (which
\* is in percent).
C17_MaxDrawdown ==
    (fn_pc = "return" /\ Len(fn_args.equity_curve) >= 3)
        => /\ fn_ret.max_drawdown = RoundDecimals(LargestDecline(fn_args.equity_curve, 1, 1), 4)
           /\ RMul(fn_ret.max_drawdown, RInt(100))
                 = RAbs(SeqMin(fn_ret.drawdown_curve, Len(fn_ret.drawdown_curve)))

\* ---- the risk-free rate series -----------------------------------------------
\* the latest value of the series dated on or before the day, else the default rate
RateKnownAt(risk_free_rate, date) ==
    LET known == { k \in DOMAIN risk_free_rate.obs : k <= date }
    IN  IF known = {} THEN DEFAULT_RISK_FREE_RATE
        ELSE risk_free_rate.obs[Max(known)]
SeriesGiven == args.risk_free_rate.kind = "series" /\ ~args.risk_free_rate.raises

C19_RebalanceRate ==
    (pc = "holding" /\ SeriesGiven)
        => cycle.current_rf_annual = RateKnownAt(args.risk_free_rate, current_idx)
C19_InterestRate ==
    (ValuedDay /\ SeriesGiven /\ cash_balance' # cash_balance)
        => cash_balance' =
              RMul(cash_balance,
                   RAdd(One, RDiv(RateKnownAt(args.risk_free_rate, d_idx),
                                  RInt(TRADING_DAYS_PER_YEAR))))
\* C19: with a risk-free rate series, the rate used at the rebalance of index t, and
\* for the interest of each day, is the latest value of the series dated on or before
\* that day; when the series has no such value the rate used is the default, 4.5%.
C19_RateAsOf ==
    /\ []C19_RebalanceRate
    /\ [][C19_InterestRate]_vars

\* ---- the final risk contributions --------------------------------------------
LastRebalance == rebalance_dates[Len(rebalance_dates)]

\* C20: the final risk contributions are computed from the covariance of the training
\* slice of the last rebalance, the returns dated strictly before the last rebalance
\* date: no return dated on or after that date enters the computation.
C20_FinalRiskSlice ==
    (pc = "done" /\ rebalance_dates # <<>>)
        => /\ training_window_returns = train_returns(LastRebalance, args.training_window)
           /\ \A k \in training_window_returns : k < LastRebalance

\* ---- the equal-weight benchmark ----------------------------------------------
\* the index i is start_offset + k * rebalancing_window for some k >= 1
ResetIndex(a, i) ==
    /\ i > a.start_offset
    /\ (i - a.start_offset) % a.rebalancing_window = 0
\* the amount of asset t before the return of the day of index i is applied
AmountBeforeReturn(a, amounts, i, t) ==
    IF ResetIndex(a, i)
    THEN RDiv(DictSum(amounts), RInt(Cardinality(DOMAIN amounts)))
    ELSE amounts[t]
\* sum |target - current| / (2 * total value)
ResetTurnover(amounts) ==
    RDiv(RSumOver([t \in DOMAIN amounts |->
                     RAbs(RSub(RDiv(DictSum(amounts), RInt(Cardinality(DOMAIN amounts))),
                               amounts[t]))], DOMAIN amounts),
         RMul(RInt(2), DictSum(amounts)))
BenchDayStep == fn_pc = "loop" /\ fn_pc' = "loop" /\ fn_ret' # fn_ret

C21_Points ==
    fn_pc \in {"loop", "return"} =>
        /\ Len(fn_ret.benchmark_values) = fn_ret.i - fn_args.start_offset
        /\ \A k \in 1..Len(fn_ret.benchmark_values) :
              fn_ret.benchmark_values[k].date = fn_args.start_offset + k - 1
        /\ fn_pc = "return"
              => \/ fn_ret.i = fn_args.n_dates
                 \/ fn_args.start_offset >= fn_args.n_dates /\ fn_ret.benchmark_values = <<>>
C21_Day ==
    BenchDayStep =>
        /\ fn_ret'.i = fn_ret.i + 1
        /\ \A t \in Range(fn_args.tickers) :
              fn_ret'.current_amounts[t] =
                  RMul(AmountBeforeReturn(fn_args, fn_ret.current_amounts, fn_ret.i, t),
                       RAdd(One, daily_return(fn_args, fn_ret.i, t)))
        /\ fn_ret'.total_turnover_pct =
              IF ResetIndex(fn_args, fn_ret.i)
              THEN RAdd(fn_ret.total_turnover_pct, ResetTurnover(fn_ret.current_amounts))
              ELSE fn_ret.total_turnover_pct
        /\ fn_ret'.benchmark_values =
              Append(fn_ret.benchmark_values,
                     [date |-> fn_ret.i,
                      value |-> RoundDecimals(DictSum(fn_ret'.current_amounts), 6)])
\* C21: the equal-weight benchmark emits one point for every index from start_offset
\* to L - 1; it resets every asset to total value / N exactly at the indices
\* start_offset + k * rebalancing_window (k >= 1), before the return of that day is
\* applied; it multiplies each amount by (1 + its daily return) on every day; and it
\* adds sum |target - current| / (2 * total value) to its turnover at each reset and
\* at no other time.
C21_EqualWeightBenchmark ==
    /\ []C21_Points
    /\ [][C21_Day]_vars

\* three days, a reset on the third after the amounts have drifted apart
C21_Witness ==
    /\ fn_pc = "return"
    /\ fn_args.rebalancing_window = 2
    /\ fn_args.start_offset = 1
    /\ Len(fn_ret.benchmark_values) = 3
    /\ RLt(Zero, fn_ret.total_turnover_pct)
    /\ fn_ret.benchmark_values[3].value # fn_ret.benchmark_values[2].value

\* ---- insufficient data -------------------------------------------------------
\* C22: when the panel has fewer than training_window + 1 rows, the comparison job
\* whose three backtests ran on it ends in status failed with an error that reports
\* the insufficient data.
C22_InsufficientDataReported ==
    (job_pc = "done" /\ request.short_panel /\ AllFinished)
        => /\ job.status = "failed"
           /\ job.error = NotEnoughData

\* ---- the size of the training slice ------------------------------------------
\* C23: in every cycle, the first one at index training_window included, the training
\* slice handed to the optimizer has exactly training_window return rows: the
\* training_window daily returns immediately preceding the rebalance day.
C23_TrainingSliceSize ==
    pc = "holding"
        => /\ Cardinality(cycle.train_rows) = args.training_window
           /\ cycle.train_rows = (current_idx - args.training_window)..(current_idx - 1)

\* ---- conservation of value at a rebalance ------------------------------------
\* the target weights are non-negative and sum to at most 1
LongOnlyWeights(w) ==
    /\ \A k \in DOMAIN w : RLe(Zero, w[k])
    /\ RLe(DictSum(w), One)
\* the new holdings at the execution open prices
HoldingsAtExecution(c) ==
    RSumOver([k \in TickerSet |-> RMul(c.new_shares[k], c.prices_at_execution[k])],
             TickerSet)

\* C24: value is conserved at every rebalance: for non-negative target weights summing
\* to at most 1, the new holdings valued at the execution open prices plus the new
\* cash balance equal the net value, also when the execution price of an asset is
\* non-positive and the asset is skipped.
C24_ValueConserved ==
    (pc = "holding" /\ LongOnlyWeights(cycle.target_weights))
        => RAdd(HoldingsAtExecution(cycle), cycle.cash_balance) = cycle.net_value

\* ---- get_quasi_diag ------------------------------------------------------------
\* the leaves below the cluster index c
RECURSIVE LeavesOf(_, _, _)
LeavesOf(link, num, c) ==
    IF c < num THEN {c}
    ELSE LeavesOf(link, num, link[c - num + 1].l) \cup LeavesOf(link, num, link[c - num + 1].r)
PositionsOf(order, S) == { i \in 1..Len(order) : order[i] \in S }
Contiguous(P) == \A i, j \in P : \A m \in i..j : m \in P
QuasiDiagOrder(link, num, order) ==
    /\ Len(order) = num
    /\ \A leaf \in 0..(num - 1) : Cardinality(PositionsOf(order, {leaf})) = 1
    /\ \A i \in 1..Len(order) : order[i] < num
    /\ \A k \in 1..Len(link) :
          /\ Contiguous(PositionsOf(order, LeavesOf(link, num, num + k - 1)))
          /\ \A i \in PositionsOf(order, LeavesOf(link, num, link[k].l)) :
                \A j \in PositionsOf(order, LeavesOf(link, num, link[k].r)) : i < j

\* C25: for every valid linkage table over N >= 2 leaves get_quasi_diag terminates and
\* returns each leaf 0..N-1 exactly once, no cluster index >= N; the leaves of every
\* merged cluster are contiguous and the left child's leaves come before the right
\* child's.
C25_QuasiDiag ==
    /\ <>(fn_pc = "return")
    /\ [](fn_pc = "return" => QuasiDiagOrder(fn_args.link, fn_args.num, fn_ret))
\* a returned order of a table whose last merge joins two merged clusters
C25_Witness ==
    /\ fn_pc = "return"
    /\ fn_args.link[Len(fn_args.link)].l >= fn_args.num
    /\ fn_args.link[Len(fn_args.link)].r >= fn_args.num
    /\ fn_ret = get_quasi_diag(fn_args.link)

\* ---- one equity point per simulated trading day ---------------------------------
\* C26: the equity curve returned by walk_forward_backtest has exactly one point for
\* every index d with training_window + 1 <= d <= L - 1, rebalance days included: no
\* gap between consecutive holding periods.
C26_OnePointPerDay ==
    pc = "done"
        => /\ { EquityDates[i] : i \in 1..Len(EquityDates) }
                 = (args.training_window + 1)..(args.n_dates - 1)
           /\ \A i, j \in 1..Len(EquityDates) : EquityDates[i] = EquityDates[j] => i = j

\* ---- the life cycle of a job ----------------------------------------------------
Terminal == {"completed", "failed"}
StatusMoves ==
    { <<"queued", "processing">>, <<"processing", "completed">>,
      <<"processing", "failed">> }
C27_Status ==
    /\ job.status \in {"queued", "processing"} \cup Terminal
    /\ job.status = "queued" <=> job_pc = "queued"
    /\ job.status \in Terminal <=> job_pc = "done"
    /\ job.status = "completed" => job.progress = 100
    /\ job.status = "failed" => job.progress = 0
C27_Step ==
    /\ job.status' # job.status => <<job.status, job.status'>> \in StatusMoves
    /\ job.status \in Terminal => job' = job

\* C27: the status of a job follows queued -> processing -> (completed | failed);
\* run_comparison_job always ends by writing exactly one terminal status and never
\* writes to the job afterwards; completed has progress 100 and failed progress 0; no
\* operation moves a job out of a terminal status.
C27_LifeCycle ==
    /\ []C27_Status
    /\ [][C27_Step]_vars
    /\ <>(job.status \in Terminal)
\* a job that failed after two of its methods had been collected
C27_Witness ==
    /\ job.status = "failed"
    /\ job.progress = 0
    /\ completed_methods >= 2
    /\ job_pc = "done"

\* ---- no leverage, no shorting --------------------------------------------------
RebalanceStep == pc = "loop" /\ pc' = "holding"
C28_Weights ==
    /\ LongOnlyWeights(last_weights)
    /\ pc = "holding" => /\ LongOnlyWeights(cycle.optimizer_weights)
                          /\ LongOnlyWeights(cycle.target_weights)
                          /\ last_weights = cycle.target_weights
C28_Cash == RLe(Zero, cash_balance)
C28_Overlays ==
    (RebalanceStep /\ LongOnlyWeights(last_weights)
                   /\ LongOnlyWeights(cycle'.optimizer_weights))
        => /\ LongOnlyWeights(cycle'.target_weights)
           /\ last_weights' = cycle'.target_weights
           /\ RLe(Zero, cash_balance')

\* C28: provided every optimizer output has non-negative weights summing to at most
\* 1, the target weights after smoothing and scaling, used and recorded at every
\* rebalance, are each >= 0 and sum to at most 1, and the cash balance after every
\* rebalance and on every holding day is >= 0.
C28_NoLeverageNoShorting ==
    /\ [](C28_Weights /\ C28_Cash)
    /\ [][C28_Overlays]_vars
\* a later rebalance whose weights were smoothed towards the previous ones, partly
\* invested, the rest left in cash
C28_Witness ==
    /\ pc = "holding"
    /\ Len(rebalance_dates) >= 2
    /\ cycle.target_weights # cycle.optimizer_weights
    /\ RLt(Zero, DictSum(cycle.target_weights))
    /\ RLt(DictSum(cycle.target_weights), One)
    /\ RLt(Zero, cash_balance)

\* ---- a poll concurrent with the last update ---------------------------------------
ConsistentRecord(j) ==
    /\ j.status = "completed" => ~j.result.none
    /\ j.status = "failed" => j.error # None

\* C29: a poll that runs concurrently with the final update_job of the background
\* thread never observes an inconsistent terminal record: with status completed it
\* sees the result, with status failed it sees the error.
C29_ConsistentPoll == fn_ret.polled => ConsistentRecord(fn_ret.job)

\* ---- the order of the methods of a result ---------------------------------------
\* the list that lines 225-230 collect when the futures finish in the order q
RECURSIVE CollectedIn(_, _)
CollectedIn(q, k) ==
    IF k = 0 THEN <<>>
    ELSE collect_result(CollectedIn(q, k - 1), futures[q[k]].result)
CompletionOrders == Perms(Range(methods_to_run))

\* C30: the content and the order of the methods list of a completed result are the
\* same for every order in which the three workers finish, also when two methods
\* have equal Sortino ratios.
C30_OrderIndependent ==
    job.status = "completed"
        => \A q \in CompletionOrders :
              SortBySortino(CollectedIn(q, Len(methods_to_run))) = job.result.methods

====
